---- MODULE Spec2Model ----
(***************************************************************************)
(* Verification model of SoftlySoundsMatter: the debounced buttons         *)
(* (AnalogButton, GpioButton), the AnalogKnob mapping, the ImageProcessor  *)
(* dirty-flag pipeline, the ColumnSonifier synthesis and the ofApp frame   *)
(* loop / audio callback pair.                                             *)
(*                                                                         *)
(* Floating point quantities are modelled in exact fixed point; every      *)
(* scale is named where it is used.  Times are milliseconds (uint64_t in   *)
(* the source; the model's clock is monotonic and far below 2^64, so the   *)
(* unsigned subtraction nowMs - lastReadMs never wraps).                   *)
(***************************************************************************)
EXTENDS Integers, Sequences, FiniteSets, TLC

(***************************************************************************)
(* Bounds of the model                                                     *)
(***************************************************************************)
MaxTime == 40
TickMs == 10
MaxPending == 2

(***************************************************************************)
(* Input sets                                                              *)
(***************************************************************************)
ReadPeriods == {0, 10, 20}
Debounces == {0, 30}
RawLevels == {0, 650, 1023}
LineOffsets == {-1, 17}
SetupFailures == {"none", "chip", "alloc", "config", "request"}

VARIABLES
    now,                \* the caller's clock, ms (ofGetElapsedTimeMillis)
    op,                 \* label of the last operation executed
    \* ---- one button object: an AnalogButton or a GpioButton
    kind,               \* "analog" or "gpio"
    adc,                \* AnalogButton::adc is non-null
    fd,                 \* Mcp3008Spi::fd
    chip,               \* GpioButton::chip is non-null
    request,            \* GpioButton::request is non-null
    lineOffset,
    readPeriodMs,
    debounceMs,
    lastReadMs,
    lastRaw,
    pressRaw,
    releaseRaw,
    pressed,
    candidatePressed,
    candidateSinceMs,
    pressedEdge,
    releasedEdge,
    \* ---- the physical input of the button
    input,              \* gpio: logical line value 0/1; analog: ADC sample
    flipAt,             \* time of the last change of input
    \* ---- observers of the button
    ret,                \* value returned by the last consume call
    pressCommits,       \* press commits since the last consumePressed/setup
    releaseCommits,     \* release commits since the last consumeReleased/setup
    delivered,          \* commits covered by the last consume call
    obsLevel,           \* desired state of the last successful poll
    obsSince,           \* time of the first poll of the current run of obsLevel
    scen,               \* progress of the 10/20/30/40 ms polling scenario
    deviceReadAt,       \* time of the last device read of a button or knob, -1 if none
    \* ---- the operating system's side of the hardware handles
    osFds,              \* descriptors of the SPI device that are open
    osChips,            \* gpiod chips that are open
    osRequests,         \* gpiod line requests that are held
    strayRelease,       \* a handle was released that was not open
    chipOpenCalled,     \* the last GpioButton::setup called gpiod_chip_open
    \* ---- one AnalogKnob
    knobAdc,            \* AnalogKnob::adc is non-null
    knobReadPeriodMs,
    knobLastReadMs,
    knobLastRaw,
    hasMapping,
    minValue,           \* mapping values are in units of 1/1000
    stepValue,
    maxValue,
    defaultMappedValue,
    \* ---- one ColumnSonifier
    sampleRate,         \* Hz
    bufferSize,
    volume,             \* in units of 1/10
    minFreq,            \* Hz
    maxFreq,            \* Hz
    phases,             \* one phase per row, in units of 2*pi/TwoPi
    audioBuffer,        \* mono scratch buffer, samples in units of 1/255000
    \* ---- the caller of the sonifier and its observers
    outBuf,             \* samples of the ofSoundBuffer of the last render
    call,               \* arguments of the last renderColumnToBuffer call
    startPhases,        \* the phases the last render started to synthesize with
    rowOrder,           \* rows whose phase the last render advanced, in order
    renders,            \* number of renderColumnToBuffer calls so far
    freqArgs,           \* arguments of the last calculateFrequencyFromY call
    freqResult,         \* the frequency it returned, Hz
    \* ---- one ImageProcessor
    original,           \* the source image, RGB
    graySmall,          \* the downscaled grayscale image
    sobelImg,           \* the Sobel (brightness) map
    scaleFactor,        \* in units of 1/4
    dirty,
    lastContrast,       \* in units of 1/10
    lastExposure,       \* in units of 1/100
    lastSobelStrength,  \* in units of 1/10
    \* ---- AudioEngine
    render,             \* AudioEngine::render holds a function
    renderCalls,        \* calls of render made by the last AudioEngine::audioOut
    \* ---- observers of the ImageProcessor
    ranPass,            \* the last update() ran process()
    everPassed,         \* some update() has run process()
    srcChanged,         \* setSourceRGB replaced the source since the last update()
    parChanged,         \* setParams changed a value since the last update()
    scaleSet,           \* setScaleFactor was called since the last update()
    \* ---- ofApp: the frame loop (main thread) and the audio callback
    appOriginal,        \* ofApp::original
    appGraySmall,       \* ofApp::graySmall
    appSobelImg,        \* ofApp::sobelImg
    imageDirty,
    isCapturing,
    guiContrast,        \* the sliders contrast, exposure and sobelStrength
    guiExposure,
    guiSobelStrength,
    appLastContrast,    \* ofApp::lastContrast, lastExposure, lastSobel
    appLastExposure,
    appLastSobel,
    framePc,            \* position of the main thread inside ofApp::update
    frameK,             \* interior pixels applySobel has written in this pass
    audioPc,            \* position of the audio thread inside ofApp::audioOut
    audioX,             \* the column the callback reads
    audioHeight,        \* the height the callback took at its start
    audioRow,           \* the next row the callback reads
    audioSeen,          \* the bytes the callback has read so far
    \* ---- ofApp: the playhead
    playheadX,          \* px
    playheadSpeed,      \* the slider playheadSpeed, px/s
    canvasWidth         \* ofGetWidth(), px

knobVars == <<knobAdc, knobReadPeriodMs, knobLastReadMs, knobLastRaw, hasMapping,
              minValue, stepValue, maxValue, defaultMappedValue>>

btnVars == <<kind, adc, fd, chip, request, lineOffset, readPeriodMs, debounceMs,
             lastReadMs, lastRaw, pressRaw, releaseRaw, pressed,
             candidatePressed, candidateSinceMs, pressedEdge, releasedEdge>>
btnEnv == <<input, flipAt>>
hwObs == <<osFds, osChips, osRequests, strayRelease, chipOpenCalled>>
pollObs == <<deviceReadAt, hwObs>>
btnObs == <<ret, pressCommits, releaseCommits, delivered, obsLevel, obsSince, scen>>

sonVars == <<sampleRate, bufferSize, volume, minFreq, maxFreq, phases, audioBuffer>>
freqObs == <<freqArgs, freqResult>>
sonObs == <<outBuf, call, startPhases, rowOrder, renders>>
engineVars == <<render, renderCalls>>

imgVars == <<original, graySmall, sobelImg, scaleFactor, dirty, lastContrast,
             lastExposure, lastSobelStrength>>
imgObs == <<ranPass, everPassed, srcChanged, parChanged, scaleSet>>

appImgVars == <<appOriginal, appGraySmall, appSobelImg, imageDirty, isCapturing>>
appGuiVars == <<guiContrast, guiExposure, guiSobelStrength, appLastContrast,
                appLastExposure, appLastSobel>>
appFrameVars == <<framePc, frameK>>
appAudioVars == <<audioPc, audioX, audioHeight, audioRow, audioSeen>>
playVars == <<playheadX, playheadSpeed, canvasWidth>>
appVars == <<appImgVars, appGuiVars, appFrameVars, appAudioVars>>

\* everything that is not part of the button
notBtn == <<knobVars, sonVars, sonObs, freqObs, engineVars, playVars, imgVars, imgObs, appVars>>

\* everything that is not part of the knob (fd is the shared ADC)
notKnob == <<kind, adc, chip, request, lineOffset, readPeriodMs, debounceMs,
             lastReadMs, lastRaw, pressRaw, releaseRaw, pressed,
             candidatePressed, candidateSinceMs, pressedEdge, releasedEdge,
             btnEnv, btnObs, sonVars, sonObs, freqObs, engineVars, imgVars, imgObs,
             appVars, playVars>>

\* everything that is not part of the sonifier
notAudio == <<playVars, now, btnVars, btnEnv, btnObs, pollObs, knobVars, imgVars, imgObs, appVars>>
notSon == <<notAudio, engineVars>>

\* everything that is not part of the image processor
notImg == <<playVars, now, btnVars, btnEnv, btnObs, pollObs, knobVars, sonVars, sonObs, freqObs,
           engineVars, appVars>>

\* everything that is not part of the image side of ofApp (the playhead is
\* moved by UpdatePlayheadPosition alone)
notApp == <<playVars, now, btnVars, btnEnv, btnObs, pollObs, knobVars, sonVars, sonObs, freqObs,
           engineVars, imgVars, imgObs>>

\* everything that is not the playhead
notPlay == <<now, btnVars, btnEnv, btnObs, pollObs, knobVars, sonVars, sonObs,
             freqObs, engineVars, imgVars, imgObs, appVars>>

vars == <<playVars, now, op, btnVars, btnEnv, btnObs, pollObs, knobVars, sonVars, sonObs, freqObs,
          engineVars, imgVars, imgObs, appVars>>

\* the largest sample of the 10-bit ADC
RawMax == 1023

\* a default-constructed AnalogKnob
KnobConstructed ==
    /\ knobAdc = FALSE
    /\ knobReadPeriodMs = 200
    /\ knobLastReadMs = 0
    /\ knobLastRaw = -1
    /\ hasMapping = FALSE
    /\ minValue = 0
    /\ stepValue = 0
    /\ maxValue = 1000
    /\ defaultMappedValue = 0

\* an ofImage / ofPixels that is not allocated
NoImage == [allocated |-> FALSE, w |-> 0, h |-> 0, pix |-> <<>>]

\* a default-constructed ImageProcessor
ImgConstructed ==
    /\ original = NoImage
    /\ graySmall = NoImage
    /\ sobelImg = NoImage
    /\ scaleFactor = 1
    /\ dirty = TRUE
    /\ lastContrast = 10
    /\ lastExposure = 0
    /\ lastSobelStrength = 10
    /\ ranPass = FALSE
    /\ everPassed = FALSE
    /\ srcChanged = FALSE
    /\ parChanged = FALSE
    /\ scaleSet = FALSE

\* a constructed ofApp before its first frame and its first audio callback
AppConstructed ==
    /\ appOriginal = NoImage
    /\ appGraySmall = NoImage
    /\ appSobelImg = NoImage
    /\ imageDirty = TRUE
    /\ isCapturing = TRUE
    /\ guiContrast = 10
    /\ guiExposure = 0
    /\ guiSobelStrength = 10
    /\ appLastContrast = 10
    /\ appLastExposure = 0
    /\ appLastSobel = 10
    /\ framePc = "idle"
    /\ frameK = 0
    /\ audioPc = "idle"
    /\ audioX = 0
    /\ audioHeight = 0
    /\ audioRow = 0
    /\ audioSeen = <<>>
    /\ playheadX = 0
    /\ playheadSpeed = 120
    /\ canvasWidth = 1024

\* the arguments of a render that has not happened
NoCall == [allocated |-> FALSE, pix |-> <<>>, imgWidth |-> 0, imgHeight |-> 0,
           columnX |-> 0, frames |-> 0, channels |-> 0]

\* the arguments of a calculateFrequencyFromY call that has not happened
NoFreqCall == [y |-> -1, totalHeight |-> 0]

\* a default-constructed ColumnSonifier that was never asked to render
\* a default-constructed AudioEngine: render is empty
EngineConstructed ==
    /\ render = FALSE
    /\ renderCalls = 0

SonConstructed ==
    /\ EngineConstructed
    /\ sampleRate = 44100
    /\ bufferSize = 512
    /\ volume = 5
    /\ minFreq = 100
    /\ maxFreq = 4000
    /\ phases = <<>>
    /\ audioBuffer = <<>>
    /\ outBuf = <<>>
    /\ call = NoCall
    /\ startPhases = <<>>
    /\ rowOrder = <<>>
    /\ renders = 0
    /\ freqArgs = NoFreqCall
    /\ freqResult = 0

\* the operating system holds the handles the object holds, and no other
HandlesHeld ==
    /\ osFds = (IF fd >= 0 THEN 1 ELSE 0)
    /\ osChips = (IF chip THEN 1 ELSE 0)
    /\ osRequests = (IF request THEN 1 ELSE 0)
    /\ strayRelease = FALSE
    /\ chipOpenCalled = chip

\* a default-constructed button that no operation is applied to
ButtonConstructed ==
    /\ adc = FALSE
    /\ chip = FALSE
    /\ request = FALSE
    /\ lineOffset = -1
    /\ readPeriodMs = 10
    /\ debounceMs = 30
    /\ lastReadMs = 0
    /\ lastRaw = -1
    /\ pressRaw = 700
    /\ releaseRaw = 600
    /\ pressed = FALSE
    /\ candidatePressed = FALSE
    /\ candidateSinceMs = 0
    /\ pressedEdge = FALSE
    /\ releasedEdge = FALSE
    /\ input = 0
    /\ flipAt = 0
    /\ ret = FALSE
    /\ pressCommits = 0
    /\ releaseCommits = 0
    /\ delivered = 0
    /\ obsLevel = FALSE
    /\ obsSince = 0
    /\ scen = -1
    /\ deviceReadAt = -1
    /\ HandlesHeld

Min(a, b) == IF a < b THEN a ELSE b
Max(a, b) == IF a > b THEN a ELSE b

(***************************************************************************)
(* Buttons                                                                 *)
(***************************************************************************)

\* Mcp3008Spi::isOpen
IsOpen == fd >= 0

\* GpioButton::isReady
IsReady == request

\* the set of values one device read can return: the sample, or -1 on error
ReadResults == {input, -1}

\* AnalogButton::update, the rate limit
AnalogRateLimited_NoLimit(nowMs) == FALSE

AnalogRateLimited(nowMs) == readPeriodMs > 0 /\ (nowMs - lastReadMs) < readPeriodMs

\* GpioButton::update, the rate limit
GpioRateLimited(nowMs) == readPeriodMs > 0 /\ (nowMs - lastReadMs) < readPeriodMs

\* AnalogButton::update, hysteresis
AnalogDesired_OneThreshold(raw) ==
    raw >= pressRaw

AnalogDesired(raw) ==
    IF ~pressed /\ raw >= pressRaw THEN TRUE
    ELSE IF pressed /\ raw <= releaseRaw THEN FALSE
    ELSE pressed

\* GpioButton::update, desired level
GpioDesired(v) == v # 0

AnalogCommitDue(nowMs) ==
    debounceMs = 0 \/ (nowMs - candidateSinceMs) >= debounceMs

GpioCommitDue_Strict(nowMs) ==
    debounceMs = 0 \/ (nowMs - candidateSinceMs) > debounceMs

GpioCommitDue(nowMs) ==
    debounceMs = 0 \/ (nowMs - candidateSinceMs) >= debounceMs

AnalogDebounce_NoDefer(desired, nowMs) ==
    /\ candidatePressed' = desired
    /\ candidateSinceMs' = IF desired # candidatePressed THEN nowMs
                           ELSE candidateSinceMs
    /\ IF pressed # desired
          /\ (debounceMs = 0 \/ (nowMs - candidateSinceMs') >= debounceMs)
       THEN /\ pressed' = desired
            /\ IF desired
               THEN pressedEdge' = TRUE /\ UNCHANGED releasedEdge
               ELSE releasedEdge' = TRUE /\ UNCHANGED pressedEdge
       ELSE UNCHANGED <<pressed, pressedEdge, releasedEdge>>

AnalogDebounce_KeepSince(desired, nowMs) ==
    IF desired # candidatePressed
    THEN /\ candidatePressed' = desired
         /\ UNCHANGED candidateSinceMs
         /\ UNCHANGED <<pressed, pressedEdge, releasedEdge>>
    ELSE /\ UNCHANGED <<candidatePressed, candidateSinceMs>>
         /\ IF pressed # candidatePressed /\ AnalogCommitDue(nowMs)
            THEN /\ pressed' = candidatePressed
                 /\ IF candidatePressed
                    THEN pressedEdge' = TRUE /\ UNCHANGED releasedEdge
                    ELSE releasedEdge' = TRUE /\ UNCHANGED pressedEdge
            ELSE UNCHANGED <<pressed, pressedEdge, releasedEdge>>

\* the debounce tail of AnalogButton::update
AnalogDebounce(desired, nowMs) ==
    IF desired # candidatePressed
    THEN /\ candidatePressed' = desired
         /\ candidateSinceMs' = nowMs
         /\ UNCHANGED <<pressed, pressedEdge, releasedEdge>>
    ELSE /\ UNCHANGED <<candidatePressed, candidateSinceMs>>
         /\ IF pressed # candidatePressed /\ AnalogCommitDue(nowMs)
            THEN /\ pressed' = candidatePressed
                 /\ IF candidatePressed
                    THEN pressedEdge' = TRUE /\ UNCHANGED releasedEdge
                    ELSE releasedEdge' = TRUE /\ UNCHANGED pressedEdge
            ELSE UNCHANGED <<pressed, pressedEdge, releasedEdge>>

GpioDebounce_Recommit(desired, nowMs) ==
    IF desired # candidatePressed
    THEN /\ candidatePressed' = desired
         /\ candidateSinceMs' = nowMs
         /\ UNCHANGED <<pressed, pressedEdge, releasedEdge>>
    ELSE /\ UNCHANGED <<candidatePressed, candidateSinceMs>>
         /\ IF GpioCommitDue(nowMs)
            THEN /\ pressed' = candidatePressed
                 /\ IF candidatePressed
                    THEN pressedEdge' = TRUE /\ UNCHANGED releasedEdge
                    ELSE releasedEdge' = TRUE /\ UNCHANGED pressedEdge
            ELSE UNCHANGED <<pressed, pressedEdge, releasedEdge>>

GpioDebounce_NoDefer(desired, nowMs) ==
    /\ candidatePressed' = desired
    /\ candidateSinceMs' = IF desired # candidatePressed THEN nowMs
                           ELSE candidateSinceMs
    /\ IF pressed # desired
          /\ (debounceMs = 0 \/ (nowMs - candidateSinceMs') >= debounceMs)
       THEN /\ pressed' = desired
            /\ IF desired
               THEN pressedEdge' = TRUE /\ UNCHANGED releasedEdge
               ELSE releasedEdge' = TRUE /\ UNCHANGED pressedEdge
       ELSE UNCHANGED <<pressed, pressedEdge, releasedEdge>>

\* the debounce tail of GpioButton::update
GpioDebounce(desired, nowMs) ==
    IF desired # candidatePressed
    THEN /\ candidatePressed' = desired
         /\ candidateSinceMs' = nowMs
         /\ UNCHANGED <<pressed, pressedEdge, releasedEdge>>
    ELSE /\ UNCHANGED <<candidatePressed, candidateSinceMs>>
         /\ IF pressed # candidatePressed /\ GpioCommitDue(nowMs)
            THEN /\ pressed' = candidatePressed
                 /\ IF candidatePressed
                    THEN pressedEdge' = TRUE /\ UNCHANGED releasedEdge
                    ELSE releasedEdge' = TRUE /\ UNCHANGED pressedEdge
            ELSE UNCHANGED <<pressed, pressedEdge, releasedEdge>>

\* the level the physical input asks for (what a successful read would desire)
InputLevel ==
    IF kind = "gpio" THEN GpioDesired(input) ELSE AnalogDesired(input)

\* the polling scenario: level pressed since 0 ms, debounce 30 ms, period 10 ms,
\* update() called exactly at 10, 20, 30, 40 ms, every read succeeding
ScenAfterPoll(v) ==
    IF scen >= 0 /\ scen < 4 /\ now = 10 * (scen + 1) /\ v >= 0 /\ flipAt = 0
    THEN scen + 1
    ELSE -1

\* observers after an update() call that sampled the desired state d
ObserveSample(d) ==
    /\ obsLevel' = d
    /\ obsSince' = IF d # obsLevel THEN now ELSE obsSince
    /\ pressCommits' = IF ~pressed /\ pressed'
                       THEN Min(pressCommits + 1, MaxPending) ELSE pressCommits
    /\ releaseCommits' = IF pressed /\ ~pressed'
                         THEN Min(releaseCommits + 1, MaxPending) ELSE releaseCommits
    /\ UNCHANGED <<ret, delivered>>

ObserveReset ==
    /\ obsLevel' = FALSE /\ obsSince' = 0
    /\ pressCommits' = 0 /\ releaseCommits' = 0
    /\ UNCHANGED <<ret, delivered>>

\* AnalogButton::setup
AnalogSetup(a) ==
    /\ kind = "analog"
    /\ adc' = a
    /\ lastReadMs' = 0
    /\ lastRaw' = -1
    /\ pressed' = FALSE
    /\ candidatePressed' = FALSE
    /\ candidateSinceMs' = 0
    /\ pressedEdge' = FALSE
    /\ releasedEdge' = FALSE
    /\ op' = "setup"
    /\ ObserveReset
    /\ scen' = IF a /\ IsOpen /\ now = 0 /\ debounceMs = 30 /\ readPeriodMs = 10
                  /\ flipAt = 0 /\ input >= pressRaw
               THEN 0 ELSE -1
    /\ UNCHANGED <<now, kind, fd, chip, request, lineOffset, readPeriodMs,
                   debounceMs, pressRaw, releaseRaw, btnEnv>>
    /\ UNCHANGED notBtn
    /\ UNCHANGED pollObs

\* AnalogButton::update
AnalogUpdate ==
    /\ kind = "analog"
    /\ IF ~adc \/ ~IsOpen
       THEN /\ op' = "noop"
            /\ scen' = -1
            /\ UNCHANGED <<btnVars, ret, pressCommits, releaseCommits,
                           delivered, obsLevel, obsSince>>
       ELSE IF AnalogRateLimited(now)
       THEN /\ op' = "skip"
            /\ scen' = -1
            /\ UNCHANGED <<btnVars, ret, pressCommits, releaseCommits,
                           delivered, obsLevel, obsSince>>
       ELSE \E raw \in ReadResults :
            /\ lastReadMs' = now
            /\ lastRaw' = raw
            /\ scen' = ScenAfterPoll(raw)
            /\ IF raw < 0
               THEN /\ op' = "fail"
                    /\ UNCHANGED <<pressed, candidatePressed, candidateSinceMs,
                                   pressedEdge, releasedEdge, ret, pressCommits,
                                   releaseCommits, delivered, obsLevel, obsSince>>
               ELSE /\ op' = "read"
                    /\ AnalogDebounce(AnalogDesired(raw), now)
                    /\ ObserveSample(AnalogDesired(raw))
            /\ UNCHANGED <<kind, adc, fd, chip, request, lineOffset,
                           readPeriodMs, debounceMs, pressRaw, releaseRaw>>
    /\ UNCHANGED <<now, btnEnv>>
    /\ UNCHANGED notBtn
    /\ deviceReadAt' = IF op' \in {"read", "fail"} THEN now ELSE deviceReadAt
    /\ UNCHANGED hwObs

\* ::close(fd), gpiod_chip_close, gpiod_line_request_release: n handles of
\* the kind are open
ReleaseHandle(n) == IF n > 0 THEN n - 1 ELSE n

\* Mcp3008Spi::close on the descriptor f, osFds being n: the descriptor the
\* object is left with, the open descriptors, and whether ::close was given
\* one that is not open
McpCloseOf_KeepFd(f, n) ==
    IF f >= 0
    THEN [fd |-> f, osFds |-> ReleaseHandle(n), stray |-> n = 0]
    ELSE [fd |-> f, osFds |-> n, stray |-> FALSE]

McpCloseOf(f, n) ==
    IF f >= 0
    THEN [fd |-> -1, osFds |-> ReleaseHandle(n), stray |-> n = 0]
    ELSE [fd |-> f, osFds |-> n, stray |-> FALSE]

\* Mcp3008Spi::close
McpClose ==
    /\ kind # "gpio"
    /\ LET c == McpCloseOf(fd, osFds)
       IN  /\ fd' = c.fd
           /\ osFds' = c.osFds
           /\ strayRelease' = (strayRelease \/ c.stray)
    /\ op' = "close"
    /\ scen' = -1
    /\ UNCHANGED <<now, kind, adc, chip, request, lineOffset, readPeriodMs,
                   debounceMs, lastReadMs, lastRaw, pressRaw, releaseRaw, pressed,
                   candidatePressed, candidateSinceMs, pressedEdge, releasedEdge,
                   btnEnv, ret, pressCommits, releaseCommits, delivered,
                   obsLevel, obsSince>>
    /\ UNCHANGED notBtn
    /\ UNCHANGED <<deviceReadAt, osChips, osRequests, chipOpenCalled>>

\* the value Mcp3008Spi::setup returns
McpSetupReturns(openOk, cfgOk) == openOk /\ cfgOk

\* Mcp3008Spi::setup; openOk: ::open succeeds, cfgOk: the three ioctls succeed
McpSetup(openOk, cfgOk) ==
    /\ kind # "gpio"
    /\ LET \* close() at the start
           first == McpCloseOf(fd, osFds)
       IN  /\ strayRelease' = (strayRelease \/ first.stray)
           /\ IF ~openOk
              THEN \* ::open returned -1
                   fd' = -1 /\ osFds' = first.osFds
              ELSE IF ~cfgOk
              THEN \* close() on the descriptor just opened
                   /\ fd' = McpCloseOf(3, first.osFds + 1).fd
                   /\ osFds' = McpCloseOf(3, first.osFds + 1).osFds
              ELSE fd' = 3 /\ osFds' = first.osFds + 1
    /\ op' = "open"
    /\ scen' = -1
    /\ UNCHANGED <<now, kind, adc, chip, request, lineOffset, readPeriodMs,
                   debounceMs, lastReadMs, lastRaw, pressRaw, releaseRaw, pressed,
                   candidatePressed, candidateSinceMs, pressedEdge, releasedEdge,
                   btnEnv, ret, pressCommits, releaseCommits, delivered,
                   obsLevel, obsSince>>
    /\ UNCHANGED notBtn
    /\ UNCHANGED <<deviceReadAt, osChips, osRequests, chipOpenCalled>>

\* GpioButton::close on the request rq and the chip ch, nR requests and nC
\* chips being open
GpioCloseOf(rq, ch, nR, nC) ==
    [request |-> FALSE,
     chip |-> FALSE,
     osRequests |-> IF rq THEN ReleaseHandle(nR) ELSE nR,
     osChips |-> IF ch THEN ReleaseHandle(nC) ELSE nC,
     stray |-> (rq /\ nR = 0) \/ (ch /\ nC = 0)]

\* GpioButton::close
GpioClose ==
    /\ kind = "gpio"
    /\ LET c == GpioCloseOf(request, chip, osRequests, osChips)
       IN  /\ request' = c.request
           /\ chip' = c.chip
           /\ osRequests' = c.osRequests
           /\ osChips' = c.osChips
           /\ strayRelease' = (strayRelease \/ c.stray)
    /\ op' = "close"
    /\ scen' = -1
    /\ UNCHANGED <<now, kind, adc, fd, lineOffset, readPeriodMs,
                   debounceMs, lastReadMs, lastRaw, pressRaw, releaseRaw, pressed,
                   candidatePressed, candidateSinceMs, pressedEdge, releasedEdge,
                   btnEnv, ret, pressCommits, releaseCommits, delivered,
                   obsLevel, obsSince>>
    /\ UNCHANGED notBtn
    /\ UNCHANGED <<deviceReadAt, osFds, chipOpenCalled>>

\* the value GpioButton::setup returns
GpioSetupReturns(offset, failure) == offset >= 0 /\ failure = "none"

\* GpioButton::setup; failure names the libgpiod call that fails, if any
GpioSetup(offset, failure) ==
    /\ kind = "gpio"
    /\ lineOffset' = offset
    /\ lastReadMs' = 0
    /\ pressed' = FALSE
    /\ candidatePressed' = FALSE
    /\ candidateSinceMs' = 0
    /\ pressedEdge' = FALSE
    /\ releasedEdge' = FALSE
    /\ LET \* close() at the start
           first == GpioCloseOf(request, chip, osRequests, osChips)
       IN  /\ strayRelease' = (strayRelease \/ first.stray)
           /\ chipOpenCalled' = (offset >= 0)
           /\ IF offset < 0 \/ failure = "chip"
              THEN \* returned before, or from, gpiod_chip_open
                   /\ chip' = FALSE /\ request' = FALSE
                   /\ osChips' = first.osChips
                   /\ osRequests' = first.osRequests
              ELSE IF failure \in {"alloc", "config", "request"}
              THEN \* close() on the chip just opened, no request held
                   /\ chip' = FALSE /\ request' = FALSE
                   /\ osChips' = GpioCloseOf(FALSE, TRUE, first.osRequests,
                                             first.osChips + 1).osChips
                   /\ osRequests' = first.osRequests
              ELSE /\ chip' = TRUE /\ request' = TRUE
                   /\ osChips' = first.osChips + 1
                   /\ osRequests' = first.osRequests + 1
    /\ op' = "setup"
    /\ ObserveReset
    /\ scen' = IF offset >= 0 /\ failure = "none" /\ now = 0 /\ debounceMs = 30
                  /\ readPeriodMs = 10 /\ flipAt = 0 /\ input # 0
               THEN 0 ELSE -1
    /\ UNCHANGED <<now, kind, adc, fd, readPeriodMs, debounceMs, lastRaw,
                   pressRaw, releaseRaw, btnEnv>>
    /\ UNCHANGED notBtn
    /\ UNCHANGED <<deviceReadAt, osFds>>

\* GpioButton::update
GpioUpdate ==
    /\ kind = "gpio"
    /\ IF ~request \/ lineOffset < 0
       THEN /\ op' = "noop"
            /\ scen' = -1
            /\ UNCHANGED <<btnVars, ret, pressCommits, releaseCommits,
                           delivered, obsLevel, obsSince>>
       ELSE IF GpioRateLimited(now)
       THEN /\ op' = "skip"
            /\ scen' = -1
            /\ UNCHANGED <<btnVars, ret, pressCommits, releaseCommits,
                           delivered, obsLevel, obsSince>>
       ELSE \E v \in ReadResults :
            /\ lastReadMs' = now
            /\ scen' = ScenAfterPoll(v)
            /\ IF v < 0
               THEN /\ op' = "fail"
                    /\ UNCHANGED <<pressed, candidatePressed, candidateSinceMs,
                                   pressedEdge, releasedEdge, ret, pressCommits,
                                   releaseCommits, delivered, obsLevel, obsSince>>
               ELSE /\ op' = "read"
                    /\ GpioDebounce(GpioDesired(v), now)
                    /\ ObserveSample(GpioDesired(v))
            /\ UNCHANGED <<kind, adc, fd, chip, request, lineOffset, lastRaw,
                           readPeriodMs, debounceMs, pressRaw, releaseRaw>>
    /\ UNCHANGED <<now, btnEnv>>
    /\ UNCHANGED notBtn
    /\ deviceReadAt' = IF op' \in {"read", "fail"} THEN now ELSE deviceReadAt
    /\ UNCHANGED hwObs

ConsumePressedBody_NoClear ==
    /\ ret' = pressedEdge
    /\ UNCHANGED pressedEdge

\* AnalogButton::consumePressed, GpioButton::consumePressed
ConsumePressedBody ==
    /\ ret' = pressedEdge
    /\ pressedEdge' = FALSE

\* AnalogButton::consumeReleased, GpioButton::consumeReleased
ConsumeReleasedBody ==
    /\ ret' = releasedEdge
    /\ releasedEdge' = FALSE

ConsumePressed ==
    /\ ConsumePressedBody
    /\ op' = "consumePressed"
    /\ delivered' = pressCommits
    /\ pressCommits' = 0
    /\ UNCHANGED <<now, kind, adc, fd, chip, request, lineOffset, readPeriodMs,
                   debounceMs, lastReadMs, lastRaw, pressRaw, releaseRaw, pressed,
                   candidatePressed, candidateSinceMs, releasedEdge, btnEnv,
                   releaseCommits, obsLevel, obsSince, scen>>
    /\ UNCHANGED notBtn
    /\ UNCHANGED pollObs

ConsumeReleased ==
    /\ ConsumeReleasedBody
    /\ op' = "consumeReleased"
    /\ delivered' = releaseCommits
    /\ releaseCommits' = 0
    /\ UNCHANGED <<now, kind, adc, fd, chip, request, lineOffset, readPeriodMs,
                   debounceMs, lastReadMs, lastRaw, pressRaw, releaseRaw, pressed,
                   candidatePressed, candidateSinceMs, pressedEdge, btnEnv,
                   pressCommits, obsLevel, obsSince, scen>>
    /\ UNCHANGED notBtn
    /\ UNCHANGED pollObs

\* the physical input changes between two polls
InputChange(x) ==
    /\ x # input
    /\ input' = x
    /\ flipAt' = now
    /\ op' = "input"
    /\ scen' = -1
    /\ UNCHANGED <<now, btnVars, ret, pressCommits, releaseCommits, delivered,
                   obsLevel, obsSince>>
    /\ UNCHANGED notBtn
    /\ UNCHANGED pollObs

\* time passes
Tick ==
    /\ now + TickMs <= MaxTime
    /\ now' = now + TickMs
    /\ op' = "tick"
    /\ UNCHANGED <<btnVars, btnEnv, btnObs>>
    /\ UNCHANGED notBtn
    /\ UNCHANGED pollObs

InitButton ==
    /\ now = 0
    /\ op = "init"
    /\ kind \in {"analog", "gpio"}
    /\ adc = FALSE
    /\ fd = -1
    /\ chip = FALSE
    /\ request = FALSE
    /\ lineOffset = -1
    /\ readPeriodMs \in ReadPeriods
    /\ debounceMs \in Debounces
    /\ lastReadMs = 0
    /\ lastRaw = -1
    /\ pressRaw = 700
    /\ releaseRaw = 600
    /\ pressed = FALSE
    /\ candidatePressed = FALSE
    /\ candidateSinceMs = 0
    /\ pressedEdge = FALSE
    /\ releasedEdge = FALSE
    /\ input \in (IF kind = "gpio" THEN {0, 1} ELSE RawLevels)
    /\ flipAt = 0
    /\ ret = FALSE
    /\ pressCommits = 0
    /\ releaseCommits = 0
    /\ delivered = 0
    /\ obsLevel = FALSE
    /\ obsSince = 0
    /\ scen = -1
    /\ deviceReadAt = -1
    /\ HandlesHeld
    /\ KnobConstructed
    /\ SonConstructed
    /\ ImgConstructed
    /\ AppConstructed

NextButton ==
    \/ Tick
    \/ \E x \in (IF kind = "gpio" THEN {0, 1} ELSE RawLevels) : InputChange(x)
    \/ \E a \in BOOLEAN : AnalogSetup(a)
    \/ AnalogUpdate
    \/ \E o \in BOOLEAN, c \in BOOLEAN : McpSetup(o, c)
    \/ McpClose
    \/ \E o \in LineOffsets, f \in SetupFailures : GpioSetup(o, f)
    \/ GpioUpdate
    \/ GpioClose
    \/ ConsumePressed
    \/ ConsumeReleased

SpecButton == InitButton /\ [][NextButton]_vars

\* the life of the handles of one Mcp3008Spi with its AnalogButton, or of one
\* GpioButton, on an input that does not change
InitHandles ==
    /\ InitButton
    /\ readPeriodMs = 10
    /\ debounceMs = 30

NextHandles ==
    \/ Tick
    \/ AnalogSetup(TRUE)
    \/ AnalogUpdate
    \/ \E o \in BOOLEAN, c \in BOOLEAN : McpSetup(o, c)
    \/ McpClose
    \/ \E o \in LineOffsets, f \in SetupFailures : GpioSetup(o, f)
    \/ GpioUpdate
    \/ GpioClose

SpecHandles == InitHandles /\ [][NextHandles]_vars

\* the threshold pairs given to setThresholds(pressAtOrAbove, releaseAtOrBelow):
\* the defaults, a pair with no dead band, the widest pair, an inverted pair
ThresholdPairs == {<<700, 600>>, <<650, 650>>, <<1023, 0>>, <<600, 700>>}

\* AnalogButton::setThresholds
SetThresholds(p) ==
    /\ kind = "analog"
    /\ <<pressRaw, releaseRaw>> # p
    /\ pressRaw' = p[1]
    /\ releaseRaw' = p[2]
    /\ op' = "setThresholds"
    /\ scen' = -1
    /\ UNCHANGED <<now, kind, adc, fd, chip, request, lineOffset, readPeriodMs,
                   debounceMs, lastReadMs, lastRaw, pressed, candidatePressed,
                   candidateSinceMs, pressedEdge, releasedEdge, btnEnv, ret,
                   pressCommits, releaseCommits, delivered, obsLevel, obsSince>>
    /\ UNCHANGED notBtn
    /\ UNCHANGED pollObs

\* an AnalogButton set up on an open ADC, polled while its thresholds are set
InitAnalog ==
    /\ now = 0
    /\ op = "init"
    /\ kind = "analog"
    /\ adc = TRUE
    /\ fd = 3
    /\ chip = FALSE
    /\ request = FALSE
    /\ lineOffset = -1
    /\ readPeriodMs \in ReadPeriods
    /\ debounceMs \in Debounces
    /\ lastReadMs = 0
    /\ lastRaw = -1
    /\ \E p \in ThresholdPairs : pressRaw = p[1] /\ releaseRaw = p[2]
    /\ pressed = FALSE
    /\ candidatePressed = FALSE
    /\ candidateSinceMs = 0
    /\ pressedEdge = FALSE
    /\ releasedEdge = FALSE
    /\ input \in RawLevels
    /\ flipAt = 0
    /\ ret = FALSE
    /\ pressCommits = 0
    /\ releaseCommits = 0
    /\ delivered = 0
    /\ obsLevel = FALSE
    /\ obsSince = 0
    /\ scen = -1
    /\ deviceReadAt = -1
    /\ HandlesHeld
    /\ KnobConstructed
    /\ SonConstructed
    /\ ImgConstructed
    /\ AppConstructed

NextAnalog ==
    \/ Tick
    \/ \E x \in RawLevels : InputChange(x)
    \/ AnalogUpdate
    \/ \E p \in ThresholdPairs : SetThresholds(p)

SpecAnalog == InitAnalog /\ [][NextAnalog]_vars

(***************************************************************************)
(* AnalogKnob                                                              *)
(*                                                                         *)
(* Mapping values (min, step, max, default) are fixed point in units of    *)
(* 1/1000: 0.2 is 200.  A mapped value is returned in units of             *)
(* 1/(1000 * RawMax), which makes min + (raw/1023) * (max - min) exact.    *)
(***************************************************************************)

\* the mappings a knob is configured with: <<min, step, max, default>>
KnobMappings ==
    { <<200, 10, 3000, 1000>>,      \* contrast knob: 0.2 .. 3.0 step 0.01
      <<0, 0, 1000, 500>>,          \* continuous 0 .. 1
      <<0, 400, 1000, 500>>,        \* step 0.4 does not divide the range
      <<-1000, 250, 1000, 250>>,    \* exposure-like, negative minimum
      <<0, 5000, 1000, 700>> }      \* step larger than the range

\* std::clamp
Clamp(v, lo, hi) == IF v < lo THEN lo ELSE IF hi < v THEN hi ELSE v

\* std::round of the quotient n / d (d > 0): half away from zero
RoundDiv(n, d) ==
    IF n >= 0 THEN (2 * n + d) \div (2 * d)
    ELSE -((2 * (-n) + d) \div (2 * d))

\* truncation instead of std::round
GetValueAt_Trunc(raw) ==
    IF ~hasMapping \/ raw < 0 THEN defaultMappedValue * RawMax
    ELSE LET t == Clamp(raw, 0, RawMax)
             v == minValue * RawMax + t * (maxValue - minValue)
             q == IF stepValue > 0
                  THEN minValue * RawMax
                       + ((v - minValue * RawMax) \div (stepValue * RawMax))
                         * stepValue * RawMax
                  ELSE v
         IN  Clamp(q, minValue * RawMax, maxValue * RawMax)

\* the final std::clamp left out
GetValueAt_NoClamp(raw) ==
    IF ~hasMapping \/ raw < 0 THEN defaultMappedValue * RawMax
    ELSE LET t == Clamp(raw, 0, RawMax)
             v == minValue * RawMax + t * (maxValue - minValue)
         IN  IF stepValue > 0
             THEN minValue * RawMax
                  + RoundDiv(v - minValue * RawMax, stepValue * RawMax)
                    * stepValue * RawMax
             ELSE v

\* AnalogKnob::getValue for lastRaw = raw.  t is the numerator of
\* clamp(raw / 1023.0f, 0, 1) over RawMax; v and the result are scaled by RawMax.
GetValueAt(raw) ==
    IF ~hasMapping \/ raw < 0 THEN defaultMappedValue * RawMax
    ELSE LET t == Clamp(raw, 0, RawMax)
             v == minValue * RawMax + t * (maxValue - minValue)
             q == IF stepValue > 0
                  THEN minValue * RawMax
                       + RoundDiv(v - minValue * RawMax, stepValue * RawMax)
                         * stepValue * RawMax
                  ELSE v
         IN  Clamp(q, minValue * RawMax, maxValue * RawMax)

\* AnalogKnob::getValue
GetValue == GetValueAt(knobLastRaw)

\* AnalogKnob::getRaw
GetRaw == knobLastRaw

\* AnalogKnob::setMapping
SetMapping(m) ==
    /\ kind = "knob"
    /\ minValue' = m[1]
    /\ stepValue' = m[2]
    /\ maxValue' = m[3]
    /\ defaultMappedValue' = m[4]
    /\ hasMapping' = TRUE
    /\ op' = "setMapping"
    /\ UNCHANGED <<now, fd, knobAdc, knobReadPeriodMs, knobLastReadMs, knobLastRaw>>
    /\ UNCHANGED notKnob
    /\ UNCHANGED pollObs

\* AnalogKnob::setup
KnobSetup(a) ==
    /\ kind = "knob"
    /\ knobAdc' = a
    /\ knobLastReadMs' = 0
    /\ knobLastRaw' = -1
    /\ op' = "setup"
    /\ UNCHANGED <<now, fd, knobReadPeriodMs, hasMapping, minValue, stepValue,
                   maxValue, defaultMappedValue>>
    /\ UNCHANGED notKnob
    /\ UNCHANGED pollObs

\* AnalogKnob::update; raw is what adc->readChannelRaw(channel) returns
KnobUpdate(raw) ==
    /\ kind = "knob"
    /\ IF ~knobAdc \/ ~IsOpen
       THEN op' = "noop" /\ UNCHANGED <<knobLastReadMs, knobLastRaw>>
       ELSE IF knobReadPeriodMs > 0 /\ (now - knobLastReadMs) < knobReadPeriodMs
       THEN op' = "skip" /\ UNCHANGED <<knobLastReadMs, knobLastRaw>>
       ELSE /\ knobLastReadMs' = now
            /\ knobLastRaw' = raw
            /\ op' = IF raw < 0 THEN "fail" ELSE "read"
    /\ UNCHANGED <<now, fd, knobAdc, knobReadPeriodMs, hasMapping, minValue,
                   stepValue, maxValue, defaultMappedValue>>
    /\ UNCHANGED notKnob
    /\ deviceReadAt' = IF op' \in {"read", "fail"} THEN now ELSE deviceReadAt
    /\ UNCHANGED hwObs

\* a knob on an open ADC, polled on every update() call; it is constructed
\* either without a mapping or by AnalogKnob(channel, min, step, max, default)
InitKnob ==
    /\ now = 0
    /\ op = "init"
    /\ kind = "knob"
    /\ fd = 3
    /\ ButtonConstructed
    /\ SonConstructed
    /\ ImgConstructed
    /\ AppConstructed
    /\ knobAdc = FALSE
    /\ knobReadPeriodMs = 0
    /\ knobLastReadMs = 0
    /\ knobLastRaw = -1
    /\ \/ /\ hasMapping = FALSE
          /\ minValue = 0 /\ stepValue = 0 /\ maxValue = 1000
          /\ defaultMappedValue = 0
       \/ \E m \in KnobMappings :
          /\ hasMapping = TRUE
          /\ minValue = m[1] /\ stepValue = m[2] /\ maxValue = m[3]
          /\ defaultMappedValue = m[4]

NextKnob ==
    \/ \E m \in KnobMappings : SetMapping(m)
    \/ \E a \in BOOLEAN : KnobSetup(a)
    \/ \E raw \in -1..RawMax : KnobUpdate(raw)

SpecKnob == InitKnob /\ [][NextKnob]_vars

(***************************************************************************)
(* The three pollers under a running clock: an AnalogKnob, an AnalogButton *)
(* or a GpioButton, attached to a device that is open, with the polling    *)
(* period given to setReadPeriodMs.                                        *)
(***************************************************************************)

\* what readChannelRaw returns to the knob: an error or a sample
PollRaws == {-1, 650}

\* the polled object is attached to an open device
PollReady ==
    CASE kind = "analog" -> adc /\ IsOpen
      [] kind = "gpio"   -> request /\ lineOffset >= 0
      [] kind = "knob"   -> knobAdc /\ IsOpen
      [] OTHER           -> FALSE

\* the readPeriodMs of the polled object
PollPeriod == IF kind = "knob" THEN knobReadPeriodMs ELSE readPeriodMs

\* the lastReadMs of the polled object
PollLastReadMs == IF kind = "knob" THEN knobLastReadMs ELSE lastReadMs

InitPoll ==
    /\ now = 0
    /\ op = "init"
    /\ kind \in {"analog", "gpio", "knob"}
    /\ fd = IF kind = "gpio" THEN -1 ELSE 3
    /\ adc = (kind = "analog")
    /\ chip = (kind = "gpio")
    /\ request = (kind = "gpio")
    /\ lineOffset = IF kind = "gpio" THEN 17 ELSE -1
    /\ readPeriodMs \in (IF kind = "knob" THEN {10} ELSE ReadPeriods)
    /\ debounceMs \in (IF kind = "knob" THEN {30} ELSE Debounces)
    /\ lastReadMs = 0
    /\ lastRaw = -1
    /\ pressRaw = 700
    /\ releaseRaw = 600
    /\ pressed = FALSE
    /\ candidatePressed = FALSE
    /\ candidateSinceMs = 0
    /\ pressedEdge = FALSE
    /\ releasedEdge = FALSE
    /\ input \in (CASE kind = "gpio" -> {0, 1}
                     [] kind = "analog" -> RawLevels
                     [] OTHER -> {0})
    /\ flipAt = 0
    /\ ret = FALSE
    /\ pressCommits = 0
    /\ releaseCommits = 0
    /\ delivered = 0
    /\ obsLevel = FALSE
    /\ obsSince = 0
    /\ scen = -1
    /\ deviceReadAt = -1
    /\ HandlesHeld
    /\ knobAdc = (kind = "knob")
    /\ knobReadPeriodMs \in (IF kind = "knob" THEN ReadPeriods ELSE {200})
    /\ knobLastReadMs = 0
    /\ knobLastRaw = -1
    /\ hasMapping = FALSE
    /\ minValue = 0
    /\ stepValue = 0
    /\ maxValue = 1000
    /\ defaultMappedValue = 0
    /\ SonConstructed
    /\ ImgConstructed
    /\ AppConstructed

NextPoll ==
    \/ Tick
    \/ \E x \in (IF kind = "gpio" THEN {0, 1} ELSE RawLevels) :
          kind # "knob" /\ InputChange(x)
    \/ AnalogUpdate
    \/ GpioUpdate
    \/ \E raw \in PollRaws : KnobUpdate(raw)
    \/ AnalogSetup(TRUE)
    \/ GpioSetup(17, "none")
    \/ KnobSetup(TRUE)

SpecPoll == InitPoll /\ [][NextPoll]_vars

(***************************************************************************)
(* ColumnSonifier                                                          *)
(*                                                                         *)
(* A phase is an integer number of 1/TwoPi turns, so 2*pi is TwoPi units   *)
(* and (freq / sampleRate) * TWO_PI is exact for the sample rates below.   *)
(* Frequencies are whole Hz (the scale's base frequencies are 1/100 Hz).   *)
(* sin() is tabulated in 1/100 on 16 sectors of the turn, a pixel is its   *)
(* byte 0..255 (brightness = byte / 255) and volume is in 1/10, so a       *)
(* sample of audioBuffer is in units of 1/(100 * 255 * 10).                *)
(***************************************************************************)

\* 2*pi in phase units
TwoPi == 16000

\* the output stream is stereo: the copy loop writes out[i*2] and out[i*2+1]
StereoChannels == 2

MaxRenders == 3

SampleRates == {4000, 16000}
BufferSizes == {2, 3}
\* <<volume, minFreq, maxFreq>>
SonParams == {<<5, 100, 4000>>, <<5, 1000, 10000>>, <<10, -500, 4000>>}
FrameCounts == {2, 4}

\* brightness maps, row-major single channel
PixelMaps ==
    { [w |-> 1, h |-> 1, pix |-> <<255>>],
      [w |-> 2, h |-> 2, pix |-> <<255, 0,
                                   26, 25>>],
      [w |-> 1, h |-> 3, pix |-> <<0, 255, 128>>],
      [w |-> 1, h |-> 2, pix |-> <<255, 255>>] }

\* the calls the audio side can make: an allocated map with its own
\* dimensions and a column inside or right of it, the same with a
\* non-positive width or height, and an unallocated map
RenderCalls ==
    UNION { { [allocated |-> TRUE, pix |-> m.pix, imgWidth |-> m.w,
               imgHeight |-> m.h, columnX |-> x, frames |-> f,
               channels |-> StereoChannels] : x \in {0, m.w}, f \in FrameCounts }
            \cup
            { [allocated |-> TRUE, pix |-> m.pix, imgWidth |-> d[1],
               imgHeight |-> d[2], columnX |-> 0, frames |-> 4,
               channels |-> StereoChannels] : d \in {<<0, m.h>>, <<m.w, -1>>} }
          : m \in PixelMaps }
    \cup
    { [allocated |-> FALSE, pix |-> <<>>, imgWidth |-> 2, imgHeight |-> 2,
       columnX |-> 0, frames |-> f, channels |-> StereoChannels] : f \in FrameCounts }

Zeros(n) == [i \in 1..n |-> 0]

\* the guard of the early return of renderColumnToBuffer
InvalidCall(c) == c.imgWidth <= 0 \/ c.imgHeight <= 0 \/ ~c.allocated

\* the byte behind ColumnSonifier::getPixelBrightness (brightness * 255)
GetPixelBrightness(pix, imgWidth, x, y) == pix[y * imgWidth + x + 1]

\* b > brightnessThreshold with b = byte / 255 and the threshold 1/10
IsActive_Inclusive(byte) == byte * 10 >= 250

IsActive(byte) == byte * 10 > 255

NoteScale == <<0, 3, 5, 7, 10, 12>>

\* 440 * 2^((midiNote - 69) / 12) in 1/100 Hz for the notes of the scale
BaseFreq ==
    48 :> 13081 @@ 51 :> 15556 @@ 53 :> 17461 @@ 55 :> 19600 @@ 58 :> 23308 @@
    60 :> 26163 @@ 63 :> 31113 @@ 65 :> 34923 @@ 67 :> 39200 @@ 70 :> 46616 @@
    72 :> 52325 @@ 75 :> 62225 @@ 77 :> 69846 @@ 79 :> 78399 @@ 82 :> 93233 @@
    84 :> 104650 @@ 87 :> 124451 @@ 89 :> 139691 @@ 91 :> 156798 @@
    94 :> 186466 @@ 96 :> 209300

\* ofMap(value, inMin, inMax, outMin, outMax, true)
OfMapClamped(value, inMin, inMax, outMin, outMax) ==
    LET outVal == outMin + ((value - inMin) * (outMax - outMin)) \div (inMax - inMin)
    IN  IF outMax < outMin THEN Clamp(outVal, outMax, outMin)
                           ELSE Clamp(outVal, outMin, outMax)

\* the steps t for which the float product (1.0f - t / 23.0f) * 23 falls just
\* below the integer 23 - t, so that the conversion to int yields 22 - t
\* (single-precision rounding of the quotient and of the difference)
FloatBelow == {8, 9, 15, 16, 21, 22}

\* (int)(normalizedY * (totalNotes - 1)) with normalizedY =
\* 1.0f - (float)y / (totalHeight - 1) for totalHeight > 1: the floor of the
\* exact value, except where the exact value is the integer 23 - t and the
\* float arithmetic falls below it
NoteIndex(y, totalHeight) ==
    LET exact == (23 * (totalHeight - 1 - y)) \div (totalHeight - 1)
        whole == (23 * y) % (totalHeight - 1) = 0
    IN  IF whole /\ (23 - exact) \in FloatBelow THEN exact - 1 ELSE exact

\* ColumnSonifier::calculateFrequencyFromY, in Hz
CalculateFrequencyFromY(y, totalHeight) ==
    LET noteIndex == IF totalHeight > 1 THEN NoteIndex(y, totalHeight) ELSE 23
        octave == noteIndex \div 6
        scaleNote == NoteScale[(noteIndex % 6) + 1]
        midiNote == 48 + octave * 12 + scaleNote
    IN  OfMapClamped(BaseFreq[midiNote], 13081, 209300, minFreq, maxFreq)

\* (freq / sampleRate) * TWO_PI
PhaseInc(freq) == (freq * TwoPi) \div sampleRate

\* sin() of a phase, in 1/100
SinTable == <<0, 38, 71, 92, 100, 92, 71, 38, 0, -38, -71, -92, -100, -92, -71, -38>>
Sin100(phase) == SinTable[(((phase % TwoPi) * 16) \div TwoPi) + 1]

\* if (phases[y] >= TWO_PI) phases[y] -= TWO_PI;
WrapPhase(p) == IF p >= TwoPi THEN p - TwoPi ELSE p

\* the sample loop of ColumnSonifier::addFrequencyToBuffer from sample i on
\* (1-based); yields the buffer and the phase of the row
RECURSIVE AddFrequencyFrom(_, _, _, _, _)
AddFrequencyFrom(buf, phase, phaseInc, amp, i) ==
    IF i > bufferSize THEN [buf |-> buf, phase |-> phase]
    ELSE AddFrequencyFrom([buf EXCEPT ![i] = @ + Sin100(phase) * amp],
                          WrapPhase(phase + phaseInc), phaseInc, amp, i + 1)

\* ColumnSonifier::addFrequencyToBuffer for row y (0-based) of brightness byte
AddFrequencyToBuffer(buf, ph, y, byte, totalHeight) ==
    LET r == AddFrequencyFrom(buf, ph[y + 1],
                              PhaseInc(CalculateFrequencyFromY(y, totalHeight)),
                              byte * volume, 1)
    IN  [buf |-> r.buf, ph |-> [ph EXCEPT ![y + 1] = r.phase]]

\* sqrt(activeFrequencies) in 1/1000
Sqrt1000 == <<1000, 1414, 1732, 2000>>

\* ColumnSonifier::normalizeAudioBuffer
NormalizeAudioBuffer_None(buf, activeFrequencies) == buf

NormalizeAudioBuffer(buf, activeFrequencies) ==
    IF activeFrequencies <= 0 THEN buf
    ELSE [i \in 1..Len(buf) |-> (buf[i] * 1000) \div Sqrt1000[activeFrequencies]]

\* the row loop of ColumnSonifier::synthesizeColumn from row y on
RECURSIVE SynthesizeRows(_, _, _, _, _, _)
SynthesizeRows(pix, imgWidth, imgHeight, columnX, y, st) ==
    IF y >= imgHeight THEN st
    ELSE LET b == GetPixelBrightness(pix, imgWidth, columnX, y)
             r == AddFrequencyToBuffer(st.buf, st.ph, y, b, imgHeight)
         IN  SynthesizeRows(pix, imgWidth, imgHeight, columnX, y + 1,
                 IF IsActive(b)
                 THEN [buf |-> r.buf, ph |-> r.ph, active |-> st.active + 1,
                       order |-> Append(st.order, y)]
                 ELSE st)

\* ColumnSonifier::synthesizeColumn
SynthesizeColumn(pix, imgWidth, imgHeight, columnX, ph) ==
    LET r == SynthesizeRows(pix, imgWidth, imgHeight, columnX, 0,
                 [buf |-> Zeros(bufferSize), ph |-> ph, active |-> 0,
                  order |-> <<>>])
    IN  [buf |-> NormalizeAudioBuffer(r.buf, r.active), ph |-> r.ph,
         order |-> r.order]

EnsurePhasesSize_AlwaysReset(height) == Zeros(height)

\* ColumnSonifier::ensurePhasesSize
EnsurePhasesSize(height) ==
    IF Len(phases) # height THEN Zeros(height) ELSE phases

SilentBuffer_Mono(frames, channels) == Zeros(frames)

\* out.getBuffer().assign(out.getNumFrames() * out.getNumChannels(), 0.0f)
SilentBuffer(frames, channels) == Zeros(frames * channels)

\* the mono -> stereo copy loop: frame i takes sample i of the scratch
\* buffer, or 0 past its end, on both channels
CopyMonoToStereo(buf, frames) ==
    [k \in 1..(frames * StereoChannels) |->
        LET i == (k - 1) \div StereoChannels
        IN  IF i < Len(buf) THEN buf[i + 1] ELSE 0]

\* ColumnSonifier::setParams
SonSetParams(p) ==
    /\ kind = "sonifier"
    /\ volume' = p[1]
    /\ minFreq' = p[2]
    /\ maxFreq' = p[3]
    /\ op' = "setParams"
    /\ UNCHANGED <<sampleRate, bufferSize, phases, audioBuffer>>
    /\ UNCHANGED <<sonObs, notSon>>
    /\ UNCHANGED freqObs

\* ColumnSonifier::renderColumnToBuffer
RenderColumnToBuffer(c) ==
    /\ kind = "sonifier"
    /\ renders < MaxRenders
    /\ IF InvalidCall(c)
       THEN /\ outBuf' = SilentBuffer(c.frames, c.channels)
            /\ startPhases' = phases
            /\ rowOrder' = <<>>
            /\ UNCHANGED <<phases, audioBuffer>>
       ELSE LET clampedX == Clamp(c.columnX, 0, c.imgWidth - 1)
                ph0 == EnsurePhasesSize(c.imgHeight)
                r == SynthesizeColumn(c.pix, c.imgWidth, c.imgHeight, clampedX, ph0)
            IN  /\ phases' = r.ph
                /\ audioBuffer' = r.buf
                /\ outBuf' = CopyMonoToStereo(r.buf, c.frames)
                /\ startPhases' = ph0
                /\ rowOrder' = r.order
    /\ call' = c
    /\ renders' = renders + 1
    /\ op' = "render"
    /\ UNCHANGED <<sampleRate, bufferSize, volume, minFreq, maxFreq>>
    /\ UNCHANGED notSon
    /\ UNCHANGED freqObs

\* a constructed sonifier after setup(sampleRate, bufferSize)
InitSonifier ==
    /\ now = 0
    /\ EngineConstructed
    /\ op = "init"
    /\ kind = "sonifier"
    /\ fd = -1
    /\ ButtonConstructed
    /\ KnobConstructed
    /\ ImgConstructed
    /\ AppConstructed
    /\ sampleRate \in SampleRates
    /\ bufferSize \in BufferSizes
    /\ volume = 5
    /\ minFreq = 100
    /\ maxFreq = 4000
    /\ phases = <<>>
    /\ audioBuffer = Zeros(bufferSize)
    /\ outBuf = <<>>
    /\ call = NoCall
    /\ startPhases = <<>>
    /\ rowOrder = <<>>
    /\ renders = 0
    /\ freqArgs = NoFreqCall
    /\ freqResult = 0

NextSonifier ==
    \/ \E p \in SonParams : SonSetParams(p)
    \/ \E c \in RenderCalls : RenderColumnToBuffer(c)

SpecSonifier == InitSonifier /\ [][NextSonifier]_vars

(***************************************************************************)
(* ofApp::audioOut: the audio callback of the application, which carries   *)
(* its own copy of the synthesis.  With kind = "appAudio" the variables    *)
(* sampleRate, bufferSize, volume, minFreq, maxFreq, phases and            *)
(* audioBuffer are the members of ofApp of the same names.                 *)
(***************************************************************************)

\* what a read of audioBuffer[i] past the end of the vector can yield
PastEndReads == {0, 1}

\* the callbacks of the audio stream: the Sobel map and the capture flag
\* at the time of the callback, the column under the playhead, and the
\* number of frames of the stereo output buffer
AppAudioCalls ==
    UNION { { [allocated |-> TRUE, pix |-> m.pix, imgWidth |-> m.w,
               imgHeight |-> m.h, columnX |-> x, frames |-> f,
               channels |-> StereoChannels, capturing |-> FALSE]
              : x \in {0, m.w - 1}, f \in FrameCounts }
          : m \in PixelMaps }
    \cup
    { [allocated |-> a, pix |-> <<>>, imgWidth |-> 0, imgHeight |-> 0,
       columnX |-> 0, frames |-> 4, channels |-> StereoChannels,
       capturing |-> ~a] : a \in BOOLEAN }
    \cup
    \* a callback during video capture, the map of the last frame allocated
    { [allocated |-> TRUE, pix |-> m.pix, imgWidth |-> m.w,
       imgHeight |-> m.h, columnX |-> 0, frames |-> 2,
       channels |-> StereoChannels, capturing |-> TRUE] : m \in PixelMaps }
    \cup
    \* a callback before the first image
    { [allocated |-> FALSE, pix |-> <<>>, imgWidth |-> 0, imgHeight |-> 0,
       columnX |-> 0, frames |-> 2, channels |-> StereoChannels,
       capturing |-> FALSE] }

\* the guards of the two early returns of ofApp::audioOut
AppSilentCall_CapturingOnly(c) == c.capturing

AppSilentCall(c) == c.capturing \/ ~c.allocated

\* ofApp::ensurePhasesVectorSize: phases.resize(height, 0.0f)
AppEnsurePhasesVectorSize(height) ==
    [y \in 1..height |-> IF y <= Len(phases) THEN phases[y] ELSE 0]

\* ofApp::fillSoundBuffer: frame i takes audioBuffer[i] on both channels;
\* past the end of audioBuffer the read yields g[i - size + 1]
AppFillSoundBuffer(buf, frames, g) ==
    [k \in 1..(frames * StereoChannels) |->
        LET i == (k - 1) \div StereoChannels
        IN  IF i < Len(buf) THEN buf[i + 1] ELSE g[i - Len(buf) + 1]]

\* ofApp::audioOut
AppAudioOut(c) ==
    /\ kind = "appAudio"
    /\ renders < MaxRenders
    /\ IF AppSilentCall(c)
       THEN /\ outBuf' = SilentBuffer(c.frames, c.channels)
            /\ startPhases' = phases
            /\ rowOrder' = <<>>
            /\ UNCHANGED <<phases, audioBuffer>>
       ELSE \E g \in [1..Max(0, c.frames - bufferSize) -> PastEndReads] :
            LET ph0 == AppEnsurePhasesVectorSize(c.imgHeight)
                r == SynthesizeColumn(c.pix, c.imgWidth, c.imgHeight, c.columnX, ph0)
            IN  /\ phases' = r.ph
                /\ audioBuffer' = r.buf
                /\ outBuf' = AppFillSoundBuffer(r.buf, c.frames, g)
                /\ startPhases' = ph0
                /\ rowOrder' = r.order
    /\ call' = c
    /\ renders' = renders + 1
    /\ op' = "audioOut"
    /\ UNCHANGED <<sampleRate, bufferSize, volume, minFreq, maxFreq>>
    /\ UNCHANGED notSon
    /\ UNCHANGED freqObs

\* ofApp after setupAudio(), with the volume and frequency sliders set
InitAppAudio ==
    /\ now = 0
    /\ EngineConstructed
    /\ op = "init"
    /\ kind = "appAudio"
    /\ fd = -1
    /\ ButtonConstructed
    /\ KnobConstructed
    /\ ImgConstructed
    /\ AppConstructed
    /\ sampleRate \in SampleRates
    /\ bufferSize \in BufferSizes
    /\ \E p \in SonParams : volume = p[1] /\ minFreq = p[2] /\ maxFreq = p[3]
    /\ phases = <<>>
    /\ audioBuffer = Zeros(bufferSize)
    /\ outBuf = <<>>
    /\ call = NoCall
    /\ startPhases = <<>>
    /\ rowOrder = <<>>
    /\ renders = 0
    /\ freqArgs = NoFreqCall
    /\ freqResult = 0

\* the samples a render function may write
RenderSamples == {0, 1000}

\* AudioEngine::setRenderFn; fn: the function given is not empty
SetRenderFn(fn) ==
    /\ kind = "appAudio"
    /\ render' = fn
    /\ op' = "setRenderFn"
    /\ UNCHANGED <<renderCalls, sonVars, sonObs, freqObs, notAudio>>

\* AudioEngine::audioOut on a buffer of frames x channels samples: the
\* render function writes what it likes, fillSilence writes zeros
EngineAudioOut(frames, channels) ==
    /\ kind = "appAudio"
    /\ renders < MaxRenders
    /\ renders' = renders + 1
    /\ IF render
       THEN /\ outBuf' \in [1..(frames * channels) -> RenderSamples]
            /\ renderCalls' = 1
       ELSE /\ outBuf' = SilentBuffer(frames, channels)
            /\ renderCalls' = 0
    /\ call' = [NoCall EXCEPT !.frames = frames, !.channels = channels]
    /\ op' = "engineAudioOut"
    /\ UNCHANGED <<render, sonVars, startPhases, rowOrder, freqObs, notAudio>>

NextAppAudio ==
    \/ \E c \in AppAudioCalls : AppAudioOut(c)
    \/ \E fn \in BOOLEAN : SetRenderFn(fn)
    \/ EngineAudioOut(1, StereoChannels)

SpecAppAudio == InitAppAudio /\ [][NextAppAudio]_vars

(***************************************************************************)
(* calculateFrequencyFromY on its own: the rows of maps of every height up *)
(* to MaxHeight, under the frequency ranges setParams can install.         *)
(***************************************************************************)

MaxHeight == 24

\* ColumnSonifier::calculateFrequencyFromY / ofApp::calculateFrequencyFromY
CalculateFrequency(y, totalHeight) ==
    /\ kind = "frequency"
    /\ freqArgs' = [y |-> y, totalHeight |-> totalHeight]
    /\ freqResult' = CalculateFrequencyFromY(y, totalHeight)
    /\ op' = "frequency"
    /\ UNCHANGED <<sonVars, sonObs, notSon>>

\* a sonifier after setParams
InitFrequency ==
    /\ now = 0
    /\ EngineConstructed
    /\ op = "init"
    /\ kind = "frequency"
    /\ fd = -1
    /\ ButtonConstructed
    /\ KnobConstructed
    /\ ImgConstructed
    /\ AppConstructed
    /\ sampleRate = 44100
    /\ bufferSize = 512
    /\ \E p \in SonParams : volume = p[1] /\ minFreq = p[2] /\ maxFreq = p[3]
    /\ phases = <<>>
    /\ audioBuffer = <<>>
    /\ outBuf = <<>>
    /\ call = NoCall
    /\ startPhases = <<>>
    /\ rowOrder = <<>>
    /\ renders = 0
    /\ freqArgs = NoFreqCall
    /\ freqResult = 0

NextFrequency ==
    \E h \in 1..MaxHeight : \E y \in 0..(h - 1) : CalculateFrequency(y, h)

SpecFrequency == InitFrequency /\ [][NextFrequency]_vars

(***************************************************************************)
(* ImageProcessor                                                          *)
(*                                                                         *)
(* An image is a record of its allocation flag, width, height and          *)
(* row-major pixels; the source has <<r, g, b>> pixels, graySmall and      *)
(* sobelImg have bytes.  scaleFactor is in 1/4, contrast and sobelStrength *)
(* in 1/10, exposure in 1/100.                                             *)
(***************************************************************************)

ScaleFactors == {1, 2, 4}
\* <<contrast, exposure, sobelStrength>>
ImgParams == {<<10, 0, 10>>, <<20, 0, 10>>, <<10, 10, 5>>}
\* the bytes a freshly allocated, never written pixel buffer may hold
GarbageFills == {0, 170}

Grey(v) == <<v, v, v>>

\* the RGB frames and files the source can be set from
ImgSources ==
    { [allocated |-> TRUE, w |-> 3, h |-> 3,
       pix |-> << Grey(0),   Grey(0),   Grey(0),
                  Grey(0),   Grey(100), Grey(200),
                  Grey(200), Grey(200), Grey(200) >>],
      [allocated |-> TRUE, w |-> 3, h |-> 3,
       pix |-> << <<255, 0, 0>>, <<0, 255, 0>>,   <<0, 0, 255>>,
                  <<0, 0, 0>>,   <<90, 90, 90>>,  <<255, 255, 255>>,
                  <<0, 0, 255>>, <<255, 255, 0>>, <<30, 60, 90>> >>],
      [allocated |-> TRUE, w |-> 4, h |-> 4,
       pix |-> << Grey(0),  Grey(0),   Grey(0),   Grey(0),
                  Grey(0),  Grey(40),  Grey(80),  Grey(120),
                  Grey(0),  Grey(80),  Grey(160), Grey(240),
                  Grey(0),  Grey(120), Grey(240), Grey(255) >>],
      [allocated |-> TRUE, w |-> 4, h |-> 4,
       pix |-> [k \in 1..16 |-> Grey(200)]] }

\* ofImage::allocate(w, h, OF_IMAGE_GRAYSCALE): an image of that size is
\* kept as it is, any other is replaced by a buffer of indeterminate bytes
AllocateImage(img, w, h, fill) ==
    IF img.allocated /\ img.w = w /\ img.h = h THEN img
    ELSE [allocated |-> TRUE, w |-> w, h |-> h, pix |-> [k \in 1..(w * h) |-> fill]]

\* std::max(1, (int)(original.getWidth() * scaleFactor))
ScaledSize_Rounded(n) == Max(1, (2 * n * scaleFactor + 4) \div 8)

ScaledSize(n) == Max(1, (n * scaleFactor) \div 4)

\* ofPixels::resizeTo, nearest neighbour: destination index k samples the
\* source at (int)(0.5 + k * srcN / dstN)
ResizeIndex(k, srcN, dstN) == (dstN + 2 * k * srcN) \div (2 * dstN)

\* setImageType(OF_IMAGE_GRAYSCALE): the luma of an RGB pixel
Luma(rgb) == (2126 * rgb[1] + 7152 * rgb[2] + 722 * rgb[3] + 5000) \div 10000

\* ImageProcessor::resizeToGrayscale: the bytes of graySmall
ResizeToGrayscale(src, w, h) ==
    [k \in 1..(w * h) |->
        LET x == (k - 1) % w
            y == (k - 1) \div w
        IN  Luma(src.pix[ResizeIndex(y, src.h, h) * src.w
                         + ResizeIndex(x, src.w, w) + 1])]

\* the loop body of ImageProcessor::applyImageAdjustments for one byte:
\* v = p/255 + exposure; v = (v - 0.5) * contrast + 0.5; p = clamp(v * 255)
\* The code computes in single precision and truncates: for the triples of
\* ImgParams the result is the exact one, except that with contrast 1 and
\* exposure 0 the bytes 1..63 (v < 0.25, where v - 0.5f drops the low bits
\* of v) come back one lower.
AdjustPixel(p, contrast, exposure) ==
    LET exact == Clamp(((100 * p + 255 * exposure - 12750) * contrast + 127500)
                           \div 1000, 0, 255)
    IN  IF contrast = 10 /\ exposure = 0 /\ p >= 1 /\ p <= 63
        THEN exact - 1
        ELSE exact

\* ImageProcessor::applyImageAdjustments
ApplyImageAdjustments(pix, contrast, exposure) ==
    [k \in 1..Len(pix) |-> AdjustPixel(pix[k], contrast, exposure)]

Abs(v) == IF v < 0 THEN -v ELSE v

\* ImageProcessor::calculateSobelMagnitude; src is indexed from 0 there
CalculateSobelMagnitude_Unweighted(src, x, y, width, sobelStrength) ==
    LET i == y * width + x + 1
        gx == -src[i - width - 1] + src[i - width + 1]
              - src[i - 1] + src[i + 1]
              - src[i + width - 1] + src[i + width + 1]
        gy == -src[i - width - 1] - src[i - width] - src[i - width + 1]
              + src[i + width - 1] + src[i + width] + src[i + width + 1]
    IN  ((Abs(gx) + Abs(gy)) * sobelStrength) \div 10

CalculateSobelMagnitude(src, x, y, width, sobelStrength) ==
    LET i == y * width + x + 1
        gx == -src[i - width - 1] + src[i - width + 1]
              - 2 * src[i - 1] + 2 * src[i + 1]
              - src[i + width - 1] + src[i + width + 1]
        gy == -src[i - width - 1] - 2 * src[i - width] - src[i - width + 1]
              + src[i + width - 1] + 2 * src[i + width] + src[i + width + 1]
    IN  ((Abs(gx) + Abs(gy)) * sobelStrength) \div 10

\* the pixels the loops of applySobel write
IsInterior(x, y, w, h) == x >= 1 /\ x < w - 1 /\ y >= 1 /\ y < h - 1

ApplySobel_NoClear(src, w, h, sobelStrength) ==
    [k \in 1..(w * h) |->
        LET x == (k - 1) % w
            y == (k - 1) \div w
        IN  IF IsInterior(x, y, w, h)
            THEN Clamp(CalculateSobelMagnitude(src, x, y, w, sobelStrength), 0, 255)
            ELSE sobelImg.pix[k]]

\* ImageProcessor::applySobel: dst.set(0), then the clamped magnitude of
\* every interior pixel
ApplySobel(src, w, h, sobelStrength) ==
    [k \in 1..(w * h) |->
        LET x == (k - 1) % w
            y == (k - 1) \div w
        IN  IF IsInterior(x, y, w, h)
            THEN Clamp(CalculateSobelMagnitude(src, x, y, w, sobelStrength), 0, 255)
            ELSE 0]

\* ImageProcessor::process: the new graySmall and sobelImg
Process ==
    LET w == graySmall.w
        h == graySmall.h
        grey == ApplyImageAdjustments(ResizeToGrayscale(original, w, h),
                                      lastContrast, lastExposure)
    IN  [gray |-> [graySmall EXCEPT !.pix = grey],
         sobel |-> [sobelImg EXCEPT !.pix = ApplySobel(grey, w, h, lastSobelStrength)]]

\* ImageProcessor::setSourceRGB
SetSourceRGB(rgb) ==
    /\ kind = "image"
    /\ IF ~rgb.allocated
       THEN /\ op' = "noop"
            /\ UNCHANGED <<original, graySmall, sobelImg, dirty, srcChanged>>
       ELSE /\ original' = rgb
            /\ \E g1, g2 \in GarbageFills :
                 LET w == ScaledSize(rgb.w)
                     h == ScaledSize(rgb.h)
                 IN  /\ graySmall' = AllocateImage(graySmall, w, h, g1)
                     /\ sobelImg' = AllocateImage(sobelImg, w, h, g2)
            /\ dirty' = TRUE
            /\ srcChanged' = TRUE
            /\ op' = "setSource"
    /\ UNCHANGED <<scaleFactor, lastContrast, lastExposure, lastSobelStrength,
                   ranPass, everPassed, parChanged, scaleSet>>
    /\ UNCHANGED notImg

\* ImageProcessor::setScaleFactor
SetScaleFactor(s) ==
    /\ kind = "image"
    /\ scaleFactor' = s
    /\ dirty' = TRUE
    /\ scaleSet' = TRUE
    /\ op' = "setScaleFactor"
    /\ UNCHANGED <<original, graySmall, sobelImg, lastContrast, lastExposure,
                   lastSobelStrength, ranPass, everPassed, srcChanged, parChanged>>
    /\ UNCHANGED notImg

\* ImageProcessor::setParams
ImgSetParams(p) ==
    /\ kind = "image"
    /\ IF p[1] # lastContrast \/ p[2] # lastExposure \/ p[3] # lastSobelStrength
       THEN /\ lastContrast' = p[1]
            /\ lastExposure' = p[2]
            /\ lastSobelStrength' = p[3]
            /\ dirty' = TRUE
            /\ parChanged' = TRUE
       ELSE UNCHANGED <<lastContrast, lastExposure, lastSobelStrength, dirty,
                        parChanged>>
    /\ op' = "setParams"
    /\ UNCHANGED <<original, graySmall, sobelImg, scaleFactor, ranPass,
                   everPassed, srcChanged, scaleSet>>
    /\ UNCHANGED notImg

\* ImageProcessor::update
ImgUpdate ==
    /\ kind = "image"
    /\ IF ~dirty \/ ~original.allocated
       THEN /\ ranPass' = FALSE
            /\ UNCHANGED <<graySmall, sobelImg, dirty, everPassed>>
       ELSE /\ graySmall' = Process.gray
            /\ sobelImg' = Process.sobel
            /\ dirty' = FALSE
            /\ ranPass' = TRUE
            /\ everPassed' = TRUE
    /\ srcChanged' = FALSE
    /\ parChanged' = FALSE
    /\ scaleSet' = FALSE
    /\ op' = "update"
    /\ UNCHANGED <<original, scaleFactor, lastContrast, lastExposure,
                   lastSobelStrength>>
    /\ UNCHANGED notImg

\* a default-constructed ImageProcessor
InitImage ==
    /\ now = 0
    /\ op = "init"
    /\ kind = "image"
    /\ fd = -1
    /\ ButtonConstructed
    /\ KnobConstructed
    /\ SonConstructed
    /\ ImgConstructed
    /\ AppConstructed

NextImage ==
    \/ \E rgb \in ImgSources \cup {NoImage} : SetSourceRGB(rgb)
    \/ \E s \in ScaleFactors : SetScaleFactor(s)
    \/ \E p \in ImgParams : ImgSetParams(p)
    \/ ImgUpdate

SpecImage == InitImage /\ [][NextImage]_vars

(***************************************************************************)
(* ofApp: the frame loop and the audio callback                            *)
(*                                                                         *)
(* ofApp::update and the key/GUI handlers run on the main thread,          *)
(* ofApp::audioOut on the thread of the sound stream; the two share        *)
(* sobelImg and isCapturing without any lock.  The interleaving is at the  *)
(* grain of one write of applySobel and one pixel read of the callback.    *)
(***************************************************************************)

\* a 12x12 and a 16x12 frame or file; at scaleFactor 0.25 they give a 3x3
\* and a 4x3 map
AppSources ==
    { [allocated |-> TRUE, w |-> 12, h |-> 12,
       pix |-> [k \in 1..144 |-> Grey(3 * ((k - 1) % 12) + 2 * ((k - 1) \div 12))]],
      [allocated |-> TRUE, w |-> 16, h |-> 12,
       pix |-> [k \in 1..192 |-> Grey(5 * ((k - 1) % 16) + 3 * ((k - 1) \div 16))]] }

\* int w = original.getWidth() * scaleFactor, with ofApp::scaleFactor = 0.25
AppScaledSize(n) == n \div 4

\* the indices (1-based, row-major) applySobel writes after dst.set(0), in
\* the order of its loops
InteriorSeq(w, h) ==
    SelectSeq([k \in 1..(w * h) |-> k],
              LAMBDA k : IsInterior((k - 1) % w, (k - 1) \div w, w, h))

\* ofApp::loadImage, and ofApp::captureCurrentFrame with a new frame: src is
\* the loaded file or the grabbed frame, NoImage a failed load or no frame
AppSetSource(src, label) ==
    IF ~src.allocated
    THEN /\ op' = "noop"
         /\ UNCHANGED appImgVars
    ELSE /\ appOriginal' = src
         /\ \E g1, g2 \in GarbageFills :
              /\ appGraySmall' = AllocateImage(appGraySmall, AppScaledSize(src.w),
                                               AppScaledSize(src.h), g1)
              /\ appSobelImg' = AllocateImage(appSobelImg, AppScaledSize(src.w),
                                              AppScaledSize(src.h), g2)
         /\ imageDirty' = TRUE
         /\ isCapturing' = FALSE
         /\ op' = label

\* ofApp::loadImage
AppLoadImage(src) ==
    /\ kind = "app"
    /\ framePc = "idle"
    /\ AppSetSource(src, "loadImage")
    /\ UNCHANGED <<appGuiVars, appFrameVars, appAudioVars, notApp>>

\* ofApp::toggleVideoCapture
AppToggleVideoCapture(frame) ==
    /\ kind = "app"
    /\ framePc = "idle"
    /\ IF isCapturing
       THEN AppSetSource(frame, "capture")
       ELSE /\ isCapturing' = TRUE
            /\ op' = "resume"
            /\ UNCHANGED <<appOriginal, appGraySmall, appSobelImg, imageDirty>>
    /\ UNCHANGED <<appGuiVars, appFrameVars, appAudioVars, notApp>>

\* the user moves the contrast, exposure and sobelStrength sliders
AppSetSliders(p) ==
    /\ kind = "app"
    /\ framePc = "idle"
    /\ guiContrast' = p[1]
    /\ guiExposure' = p[2]
    /\ guiSobelStrength' = p[3]
    /\ op' = "sliders"
    /\ UNCHANGED <<appLastContrast, appLastExposure, appLastSobel>>
    /\ UNCHANGED <<appImgVars, appFrameVars, appAudioVars, notApp>>

\* ofApp::resetImageParameters
AppResetImageParameters ==
    /\ kind = "app"
    /\ framePc = "idle"
    /\ guiContrast' = 10
    /\ guiExposure' = 0
    /\ guiSobelStrength' = 10
    /\ imageDirty' = TRUE
    /\ op' = "reset"
    /\ UNCHANGED <<appLastContrast, appLastExposure, appLastSobel>>
    /\ UNCHANGED <<appOriginal, appGraySmall, appSobelImg, isCapturing>>
    /\ UNCHANGED <<appFrameVars, appAudioVars, notApp>>

\* ofApp::hasImageParametersChanged
HasImageParametersChanged ==
    guiContrast # appLastContrast \/ guiExposure # appLastExposure
        \/ guiSobelStrength # appLastSobel

\* ofApp::update up to the call of applySobel: checkAndProcessImageChanges,
\* and of processImage the steps resizeToGrayscale and applyImageAdjustments
AppUpdate ==
    /\ kind = "app"
    /\ framePc = "idle"
    /\ appLastContrast' = guiContrast
    /\ appLastExposure' = guiExposure
    /\ appLastSobel' = guiSobelStrength
    /\ IF (imageDirty \/ HasImageParametersChanged) /\ appOriginal.allocated
       THEN /\ appGraySmall' = [appGraySmall EXCEPT !.pix =
                 ApplyImageAdjustments(
                     ResizeToGrayscale(appOriginal, appGraySmall.w, appGraySmall.h),
                     guiContrast, guiExposure)]
            /\ imageDirty' = TRUE
            /\ framePc' = "sobelClear"
            /\ op' = "process"
       ELSE /\ imageDirty' = (imageDirty \/ HasImageParametersChanged)
            /\ op' = "update"
            /\ UNCHANGED <<appGraySmall, framePc>>
    /\ UNCHANGED <<guiContrast, guiExposure, guiSobelStrength>>
    /\ UNCHANGED <<appOriginal, appSobelImg, isCapturing, frameK>>
    /\ UNCHANGED <<appAudioVars, notApp>>

\* the end of processImage: imageDirty = false, and the rest of update
AppPassDone == framePc' = "idle" /\ imageDirty' = FALSE /\ frameK' = 0

\* ofApp::applySobel, dst.set(0)
AppSobelClear ==
    /\ kind = "app"
    /\ framePc = "sobelClear"
    /\ appSobelImg' = [appSobelImg EXCEPT !.pix = Zeros(Len(appSobelImg.pix))]
    /\ IF InteriorSeq(appSobelImg.w, appSobelImg.h) = <<>>
       THEN AppPassDone
       ELSE framePc' = "sobelWrite" /\ frameK' = 0 /\ UNCHANGED imageDirty
    /\ op' = "sobelClear"
    /\ UNCHANGED <<appOriginal, appGraySmall, isCapturing>>
    /\ UNCHANGED <<appGuiVars, appAudioVars, notApp>>

\* ofApp::applySobel, one dst[y * w + x] = ofClamp(magnitude, 0, 255)
AppSobelWrite ==
    /\ kind = "app"
    /\ framePc = "sobelWrite"
    /\ LET w == appGraySmall.w
           interior == InteriorSeq(w, appGraySmall.h)
           k == interior[frameK + 1]
       IN  /\ appSobelImg' = [appSobelImg EXCEPT !.pix[k] =
                   Clamp(CalculateSobelMagnitude(appGraySmall.pix, (k - 1) % w,
                             (k - 1) \div w, w, guiSobelStrength), 0, 255)]
           /\ IF frameK + 1 = Len(interior)
              THEN AppPassDone
              ELSE frameK' = frameK + 1 /\ UNCHANGED <<framePc, imageDirty>>
    /\ op' = "sobelWrite"
    /\ UNCHANGED <<appOriginal, appGraySmall, isCapturing>>
    /\ UNCHANGED <<appGuiVars, appAudioVars, notApp>>

\* ofApp::audioOut up to the row loop of synthesizeAudioFromColumn; x is
\* the column getImageXFromPlayhead yields for the current playhead
AudioOutBegin(x) ==
    /\ kind = "app"
    /\ audioPc = "idle"
    /\ IF isCapturing \/ ~appSobelImg.allocated
       THEN /\ op' = "audioSilent"
            /\ UNCHANGED appAudioVars
       ELSE /\ x \in 0..(appSobelImg.w - 1)
            /\ audioX' = x
            /\ audioHeight' = appSobelImg.h
            /\ audioRow' = 0
            /\ audioSeen' = <<>>
            /\ audioPc' = "read"
            /\ op' = "audioBegin"
    /\ UNCHANGED <<appImgVars, appGuiVars, appFrameVars, notApp>>

\* one getPixelBrightness of the row loop; after the last row the callback
\* synthesizes from what it read and returns.  An index past the end of the
\* buffer reads an indeterminate byte.
AudioReadRow ==
    /\ kind = "app"
    /\ audioPc = "read"
    /\ LET pixelIndex == audioRow * appSobelImg.w + audioX + 1
       IN  \E b \in (IF pixelIndex <= Len(appSobelImg.pix)
                     THEN {appSobelImg.pix[pixelIndex]} ELSE GarbageFills) :
               audioSeen' = Append(audioSeen, b)
    /\ audioRow' = audioRow + 1
    /\ audioPc' = IF audioRow + 1 >= audioHeight THEN "idle" ELSE "read"
    /\ op' = "audioRead"
    /\ UNCHANGED <<audioX, audioHeight>>
    /\ UNCHANGED <<appImgVars, appGuiVars, appFrameVars, notApp>>

InitApp ==
    /\ now = 0
    /\ op = "init"
    /\ kind = "app"
    /\ fd = -1
    /\ ButtonConstructed
    /\ KnobConstructed
    /\ SonConstructed
    /\ ImgConstructed
    /\ AppConstructed

NextApp ==
    \/ \E src \in AppSources \cup {NoImage} : AppLoadImage(src)
    \/ \E frame \in AppSources \cup {NoImage} : AppToggleVideoCapture(frame)
    \/ \E p \in ImgParams : AppSetSliders(p)
    \/ AppResetImageParameters
    \/ AppUpdate
    \/ AppSobelClear
    \/ AppSobelWrite
    \/ \E x \in 0..3 : AudioOutBegin(x)
    \/ AudioReadRow

SpecApp == InitApp /\ [][NextApp]_vars

(***************************************************************************)
(* ofApp: the playhead.  Positions are in pixels, speeds in pixels per     *)
(* second, frame times in milliseconds; the speeds and frame times are     *)
(* such that every advance is a whole number of pixels.                    *)
(***************************************************************************)

PlayheadSpeeds == {-600, -120, 0, 120, 600}
FrameTimesMs == {50, 100}
CanvasWidths == {60, 96}

\* a processed Sobel map of one pixel
OnePixelMap == [allocated |-> TRUE, w |-> 1, h |-> 1, pix |-> <<0>>]

\* ofApp::updatePlayheadPosition with ofGetLastFrameTime() = dt ms
UpdatePlayheadPosition(dt) ==
    LET moved == playheadX + (playheadSpeed * dt) \div 1000
    IN  IF moved > canvasWidth THEN 0
        ELSE IF moved < 0 THEN canvasWidth
        ELSE moved

\* the playhead step of ofApp::update
PlayheadFrame(dt) ==
    /\ kind = "playhead"
    /\ IF appSobelImg.allocated /\ ~isCapturing
       THEN /\ playheadX' = UpdatePlayheadPosition(dt)
            /\ op' = "frame"
       ELSE /\ playheadX' = playheadX
            /\ op' = "frameIdle"
    /\ UNCHANGED <<playheadSpeed, canvasWidth, notPlay>>

\* the user moves the playheadSpeed slider
SetPlayheadSpeed(s) ==
    /\ kind = "playhead"
    /\ s # playheadSpeed
    /\ playheadSpeed' = s
    /\ op' = "speed"
    /\ UNCHANGED <<playheadX, canvasWidth, notPlay>>

\* the window is resized
WindowResized(w) ==
    /\ kind = "playhead"
    /\ w # canvasWidth
    /\ canvasWidth' = w
    /\ op' = "resize"
    /\ UNCHANGED <<playheadX, playheadSpeed, notPlay>>

\* ofApp with or without a processed image, capturing or not
InitPlayhead ==
    /\ now = 0
    /\ op = "init"
    /\ kind = "playhead"
    /\ fd = -1
    /\ ButtonConstructed
    /\ KnobConstructed
    /\ SonConstructed
    /\ ImgConstructed
    /\ appOriginal = NoImage
    /\ appGraySmall = NoImage
    /\ appSobelImg \in {NoImage, OnePixelMap}
    /\ imageDirty = FALSE
    /\ isCapturing \in BOOLEAN
    /\ guiContrast = 10
    /\ guiExposure = 0
    /\ guiSobelStrength = 10
    /\ appLastContrast = 10
    /\ appLastExposure = 0
    /\ appLastSobel = 10
    /\ framePc = "idle"
    /\ frameK = 0
    /\ audioPc = "idle"
    /\ audioX = 0
    /\ audioHeight = 0
    /\ audioRow = 0
    /\ audioSeen = <<>>
    /\ playheadX = 0
    /\ playheadSpeed = 120
    /\ canvasWidth \in CanvasWidths

NextPlayhead ==
    \/ \E dt \in FrameTimesMs : PlayheadFrame(dt)
    \/ \E s \in PlayheadSpeeds : SetPlayheadSpeed(s)
    \/ \E w \in CanvasWidths : WindowResized(w)

SpecPlayhead == InitPlayhead /\ [][NextPlayhead]_vars

(***************************************************************************)
(* Claims about the buttons                                                *)
(***************************************************************************)

\* C1 (as amended): in every step other than setup(), the committed pressed
\* state changes if and only if the step is a successful poll whose desired
\* level equals the level of the preceding successful poll (so it is not the
\* first poll of its run), differs from the committed state, and lies at least
\* debounceMs after the first poll of that run.  The debounce interval is
\* measured from the first poll that observed the level, not from the instant
\* the raw input flipped.
C1_CommitAtObservedStable ==
    [][ op' # "setup" =>
          ( (pressed' # pressed)
            <=> ( /\ op' = "read"
                  /\ obsLevel' = obsLevel
                  /\ obsLevel' # pressed
                  /\ now - obsSince >= debounceMs ) ) ]_vars

\* C1 witness: a press committed by a poll 30 ms after the first poll that saw
\* the level, the raw input having changed before that first poll
C1_Witness ==
    /\ op = "read" /\ debounceMs = 30
    /\ pressed /\ pressCommits > 0
    /\ obsLevel /\ obsSince > 0 /\ now - obsSince = 30

\* C1 (as stated): at every successful poll the committed state changes if and
\* only if the level of the raw input differs from it and the input has kept
\* that level for at least debounceMs since it flipped at flipAt.
C1_Original ==
    [][ op' = "read" =>
          ( (pressed' # pressed)
            <=> (InputLevel # pressed /\ now - flipAt >= debounceMs) ) ]_vars

\* C2: with debounceMs = 30 and readPeriodMs = 10, the level pressed since 0 ms
\* and update() called at 10, 20, 30 and 40 ms, the polls at 10, 20 and 30 ms
\* leave pressedEdge false and the poll at 40 ms latches it.
C2_ScenarioC ==
    [][ /\ (scen' = scen + 1 /\ scen' \in 1..3) => ~pressedEdge'
        /\ (scen = 3 /\ scen' = 4) => (~pressedEdge /\ pressedEdge') ]_vars

\* C2 witness: the state right after the poll at 40 ms of the scenario
C2_Witness == scen = 4 /\ now = 40 /\ pressedEdge /\ pressed

\* C3: a consume call returns true if and only if at least one transition of
\* its kind was committed since the previous consume call of that kind (or
\* since setup()); several such transitions are delivered by one true.
C3_ConsumeOnce ==
    /\ (op = "consumePressed" => (ret <=> delivered > 0))
    /\ (op = "consumeReleased" => (ret <=> delivered > 0))
    /\ (pressedEdge <=> pressCommits > 0)
    /\ (releasedEdge <=> releaseCommits > 0)

\* C3 witness: one consumePressed() returning true for two press commits
C3_Witness == op = "consumePressed" /\ ret /\ delivered = 2

\* C13: a button poll whose read fails changes no state of the button: the
\* read bookkeeping, the debounce candidate and its timestamp, the committed
\* state and both edge flags are as before the poll.
C13_FailedPollIgnored ==
    [][ op' = "fail" =>
            UNCHANGED <<lastReadMs, lastRaw, pressed, candidatePressed,
                        candidateSinceMs, pressedEdge, releasedEdge>> ]_vars


\* C14: on every successful poll of an AnalogButton the desired state is pressed
\* exactly when the committed state is released and raw >= pressRaw, or the
\* committed state is pressed and raw > releaseRaw (it leaves the committed
\* state only across the matching threshold); with releaseRaw <= pressRaw the
\* committed state becomes pressed only on a poll with raw >= pressRaw, becomes
\* released only on a poll with raw <= releaseRaw, and a sample strictly
\* between the thresholds never changes it.
C14_Hysteresis ==
    [][ /\ (kind = "analog" /\ op' = "read") =>
               (obsLevel' = (\/ ~pressed /\ lastRaw' >= pressRaw
                             \/ pressed /\ ~(lastRaw' <= releaseRaw)))
        /\ (kind = "analog" /\ releaseRaw <= pressRaw) =>
               /\ (~pressed /\ pressed') =>
                      (op' = "read" /\ lastRaw' >= pressRaw)
               /\ (pressed /\ ~pressed') =>
                      \/ op' = "read" /\ lastRaw' <= releaseRaw
                      \/ op' = "setup"
               /\ (op' = "read" /\ releaseRaw < lastRaw' /\ lastRaw' < pressRaw)
                      => pressed' = pressed ]_vars

C14_Witness ==
    /\ kind = "analog" /\ op = "read"
    /\ pressRaw = 700 /\ releaseRaw = 600
    /\ lastRaw = 650 /\ pressed /\ obsLevel
    /\ pressCommits > 0


\* C21: on a successful poll whose desired state differs from the candidate,
\* the candidate becomes the desired state and candidateSinceMs the time of
\* the poll, while the committed state and both edge flags stay as they were,
\* also with debounceMs = 0.
C21_DeferOnNewCandidate ==
    [][ (op' = "read" /\ kind \in {"analog", "gpio"}
            /\ obsLevel' # candidatePressed) =>
            /\ candidatePressed' = obsLevel'
            /\ candidateSinceMs' = now
            /\ UNCHANGED <<pressed, pressedEdge, releasedEdge>> ]_vars

\* an analog button with debounceMs = 0 right after the poll that first saw
\* the pressed level: the candidate is pressed, the committed state is not
C21_Witness ==
    /\ op = "read" /\ kind = "analog" /\ debounceMs = 0
    /\ candidatePressed /\ ~pressed /\ ~pressedEdge
    /\ candidateSinceMs = now /\ lastReadMs = now /\ now > 0


\* C26: the handles are released exactly once.  After every operation the
\* operating system holds exactly the handles the object holds and none was
\* released that was not open; close() on an object that holds nothing
\* releases nothing; after a setup() that returns false the object holds no
\* handle (isOpen() / isReady() is false); GpioButton::setup() with a
\* negative line offset returns false and does not call gpiod_chip_open.
C26_HandlesReleasedOnce ==
    [][ /\ osFds' = (IF fd' >= 0 THEN 1 ELSE 0)
        /\ osChips' = (IF chip' THEN 1 ELSE 0)
        /\ osRequests' = (IF request' THEN 1 ELSE 0)
        /\ ~strayRelease'
        /\ (op' = "close" /\ fd < 0 /\ ~chip /\ ~request) =>
               UNCHANGED <<fd, chip, request, osFds, osChips, osRequests>>
        /\ (op' = "close") => (fd' < 0 /\ ~chip' /\ ~request')
        /\ \A o \in BOOLEAN, c \in BOOLEAN :
               (McpSetup(o, c) /\ ~McpSetupReturns(o, c)) => fd' < 0
        /\ \A o \in LineOffsets, f \in SetupFailures :
               (GpioSetup(o, f) /\ ~GpioSetupReturns(o, f)) => (~request' /\ ~chip')
        /\ \A o \in LineOffsets, f \in SetupFailures :
               (GpioSetup(o, f) /\ o < 0) =>
                   (~GpioSetupReturns(o, f) /\ ~chipOpenCalled') ]_vars

\* a GpioButton::setup() that called gpiod_chip_open and returned false,
\* later than the first setup
C26_Witness ==
    /\ op = "setup" /\ kind = "gpio" /\ lineOffset = 17 /\ now > 0
    /\ chipOpenCalled /\ ~chip /\ ~request
    /\ osChips = 0 /\ osRequests = 0 /\ ~strayRelease


\* C27: a poll commits the candidate only if every successful poll since
\* candidateSinceMs desired it (the last one did, and the run of polls with
\* that desired state started no later than candidateSinceMs); a successful
\* poll with another desired state replaces the candidate and restarts the
\* interval at that poll, which an AnalogButton sample strictly between
\* releaseRaw and pressRaw does to a candidate that differs from the
\* committed state; skipped polls and failed reads leave the candidate and
\* its timestamp as they are.
C27_CommitNeedsAgreement ==
    [][ (kind # "knob") =>
          /\ (op' = "read" /\ pressed' # pressed) =>
                 /\ obsLevel' = candidatePressed
                 /\ obsLevel = candidatePressed
                 /\ obsSince <= candidateSinceMs
                 /\ pressed' = candidatePressed
          /\ (op' = "read" /\ obsLevel' # candidatePressed) =>
                 /\ candidatePressed' = obsLevel'
                 /\ candidateSinceMs' = now
                 /\ pressed' = pressed
          /\ (op' = "read" /\ kind = "analog"
                 /\ releaseRaw < lastRaw' /\ lastRaw' < pressRaw) =>
                 /\ obsLevel' = pressed
                 /\ (candidatePressed # pressed =>
                        (candidatePressed' = pressed /\ candidateSinceMs' = now))
          /\ (op' \in {"skip", "fail"}) =>
                 UNCHANGED <<candidatePressed, candidateSinceMs>> ]_vars

\* a pending press candidate of an AnalogButton replaced by a sample in the
\* dead band, 10 ms or more after it was taken
C27_Witness ==
    /\ op = "read" /\ kind = "analog" /\ lastRaw = 650
    /\ ~pressed /\ ~candidatePressed /\ candidateSinceMs = now /\ now >= 10
    /\ debounceMs = 30 /\ pressCommits = 0


\* C28: between two setup() calls the committed state starts released and
\* changes only by the commit of a successful poll, so that commits
\* alternate, the first being a press, and isPressed() is the state of the
\* latest commit; a commit to pressed sets pressedEdge and leaves
\* releasedEdge, a commit to released sets releasedEdge and leaves
\* pressedEdge; an edge flag rises only in such a commit and falls only in
\* its own consume call or in setup().
C28_CommitsAlternate ==
    [][ (kind # "knob") =>
          /\ (op' = "setup") => (~pressed' /\ ~pressedEdge' /\ ~releasedEdge')
          /\ (pressed' # pressed /\ op' # "setup") => op' = "read"
          /\ (op' = "read" /\ ~pressed /\ pressed') =>
                 (pressedEdge' /\ releasedEdge' = releasedEdge
                     /\ pressCommits' = Min(pressCommits + 1, MaxPending))
          /\ (op' = "read" /\ pressed /\ ~pressed') =>
                 (releasedEdge' /\ pressedEdge' = pressedEdge
                     /\ releaseCommits' = Min(releaseCommits + 1, MaxPending))
          /\ (~pressedEdge /\ pressedEdge') =>
                 (op' = "read" /\ ~pressed /\ pressed')
          /\ (~releasedEdge /\ releasedEdge') =>
                 (op' = "read" /\ pressed /\ ~pressed')
          /\ (pressedEdge /\ ~pressedEdge') =>
                 op' \in {"consumePressed", "setup"}
          /\ (releasedEdge /\ ~releasedEdge') =>
                 op' \in {"consumeReleased", "setup"} ]_vars

\* the release commit that follows a press commit whose edge was not
\* consumed
C28_Witness ==
    /\ op = "read" /\ ~pressed /\ releasedEdge /\ pressedEdge
    /\ pressCommits = 1 /\ releaseCommits = 1 /\ ~candidatePressed

(***************************************************************************)
(* Claims about the knob                                                   *)
(***************************************************************************)

\* C9: with a mapping min < max and a raw sample in 0..1023, getValue() lies
\* in [min, max] and is at least the value mapped from every smaller raw
\* sample (non-decreasing in raw), for every step >= 0.
C9_RangeAndMonotone ==
    (hasMapping /\ minValue < maxValue /\ knobLastRaw >= 0) =>
        /\ GetValue >= minValue * RawMax
        /\ GetValue <= maxValue * RawMax
        /\ \A r \in 0..knobLastRaw : GetValueAt(r) <= GetValue

\* C9 witness: the step 0.4 does not divide the range 0..1; the top of the
\* knob quantizes to 1.2 and is clamped to max = 1.0
C9_Witness ==
    /\ op = "read" /\ hasMapping
    /\ minValue = 0 /\ stepValue = 400 /\ maxValue = 1000
    /\ knobLastRaw = RawMax
    /\ GetValue = maxValue * RawMax

\* the reference mapping of the specification, scaled by RawMax like GetValue
RefValue(raw) ==
    LET lo == minValue * RawMax
        hi == maxValue * RawMax
        t == IF raw < 0 THEN 0 ELSE IF raw > RawMax THEN RawMax ELSE raw
        x == t * (maxValue - minValue)
    IN  IF stepValue > 0
        THEN Clamp(lo + RoundDiv(x, stepValue * RawMax) * stepValue * RawMax, lo, hi)
        ELSE Clamp(lo + x, lo, hi)

\* C10: getValue() equals the reference mapping when a mapping is configured
\* and raw >= 0, and the configured default otherwise; min = 0.2, step = 0.01,
\* max = 3.0, raw = 512 gives 1.60.
C10_MatchesReference ==
    /\ (hasMapping /\ knobLastRaw >= 0) => GetValue = RefValue(knobLastRaw)
    /\ (~hasMapping \/ knobLastRaw < 0) => GetValue = defaultMappedValue * RawMax
    /\ (hasMapping /\ minValue = 200 /\ stepValue = 10 /\ maxValue = 3000
        /\ knobLastRaw = 512) => GetValue = 1600 * RawMax

\* C10 witness: Scenario B, the knob at raw 512 reads 1.60
C10_Witness ==
    /\ op = "read" /\ hasMapping
    /\ minValue = 200 /\ stepValue = 10 /\ maxValue = 3000
    /\ knobLastRaw = 512
    /\ GetValue = 1600 * RawMax

\* C12: a knob poll whose ADC read fails leaves the knob's state as it was:
\* after a successful read followed by a failed one, getRaw() and getValue()
\* return what they returned after the successful read.
C12_FailedReadIgnored ==
    [][ (op' = "fail" /\ knobLastRaw >= 0) =>
            (GetRaw' = GetRaw /\ GetValue' = GetValue) ]_vars


(***************************************************************************)
(* Claims about the polling of the knob and the buttons                    *)
(***************************************************************************)

\* the steps that are an update() call, and those that read the device
UpdateOps == {"noop", "skip", "read", "fail"}
DeviceReadOps == {"read", "fail"}

\* C15 as stated: an update() less than readPeriodMs after the last read
\* reads no device and changes no state, so that any two device reads of a
\* knob or a button are at least readPeriodMs apart; with readPeriodMs = 0
\* every update() reads.
C15_Original ==
    [][ /\ (op' \in UpdateOps /\ deviceReadAt >= 0
              /\ now - deviceReadAt < PollPeriod) =>
               /\ op' \notin DeviceReadOps
               /\ UNCHANGED <<btnVars, knobVars>>
        /\ (op' \in DeviceReadOps /\ deviceReadAt >= 0) =>
               now - deviceReadAt >= PollPeriod
        /\ (op' \in UpdateOps /\ PollReady /\ PollPeriod = 0) =>
               op' \in DeviceReadOps ]_vars

\* C15, amended: an update() of an attached poller less than readPeriodMs
\* after the time the poller recorded for its last read (0 after setup())
\* reads no device and changes no state of the poller; hence two device reads
\* with no setup() between them are at least readPeriodMs apart, whatever
\* debounceMs is; with readPeriodMs = 0 every update() of an attached poller
\* reads.
C15_RateLimited ==
    [][ /\ (op' \in UpdateOps /\ now - PollLastReadMs < PollPeriod) =>
               /\ op' \notin DeviceReadOps
               /\ UNCHANGED <<btnVars, knobVars, btnEnv, ret, pressCommits,
                              releaseCommits, delivered, obsLevel, obsSince,
                              pollObs>>
        /\ (op' \in DeviceReadOps /\ deviceReadAt >= 0
              /\ deviceReadAt = PollLastReadMs) =>
               now - deviceReadAt >= PollPeriod
        /\ (op' \in UpdateOps /\ PollReady /\ PollPeriod = 0) =>
               op' \in DeviceReadOps
        /\ (deviceReadAt' # PollLastReadMs') =>
               (PollLastReadMs' = 0 /\ (kind = "knob" => knobLastRaw' = -1)) ]_vars

\* a button with debounceMs = 0 and readPeriodMs = 20 has read twice, and its
\* last update() came 10 ms after a read and was skipped
C15_Witness ==
    /\ op = "skip" /\ kind \in {"analog", "gpio"}
    /\ readPeriodMs = 20 /\ debounceMs = 0
    /\ deviceReadAt >= 20 /\ now - deviceReadAt = 10
    /\ lastReadMs = deviceReadAt

(***************************************************************************)
(* Claims about the sonifier                                               *)
(***************************************************************************)

\* the rows of the column a valid call c reads whose brightness exceeds the
\* threshold, in increasing order
ActiveRows(c) ==
    SelectSeq([i \in 1..c.imgHeight |-> i - 1],
              LAMBDA y : IsActive(GetPixelBrightness(c.pix, c.imgWidth,
                             Clamp(c.columnX, 0, c.imgWidth - 1), y)))

\* the phase advance of row y over one buffer of a valid call c
BufferAdvance(c, y) ==
    bufferSize * PhaseInc(CalculateFrequencyFromY(y, c.imgHeight))

\* C4: a renderColumnToBuffer call with an unallocated map, or with
\* imgWidth <= 0 or imgHeight <= 0, leaves exactly numFrames * numChannels
\* samples in the output buffer, all zero, and changes no phase.
C4_SilentOnInvalid ==
    [][ (op' = "render" /\ InvalidCall(call')) =>
            /\ Len(outBuf') = call'.frames * call'.channels
            /\ \A k \in 1..Len(outBuf') : outBuf'[k] = 0
            /\ phases' = phases ]_vars

\* an invalid call after a render that left a non-zero phase
C4_Witness ==
    /\ op = "render" /\ InvalidCall(call)
    /\ call.frames = 4 /\ Len(outBuf) = 8
    /\ Len(phases) = 2 /\ phases[1] # 0

\* C7: every phase lies in [0, 2*pi) in every reachable state.
C7_PhasesInRange ==
    \A y \in 1..Len(phases) : phases[y] >= 0 /\ phases[y] < TwoPi

\* C8 as stated: on a map whose row count equals that of the previous
\* call, a render starts from the phases the previous call ended with and
\* advances every row once, in increasing row order, by bufferSize phase
\* increments modulo 2*pi.
C8_Original ==
    [][ (op' = "render" /\ ~InvalidCall(call') /\ Len(phases) = call'.imgHeight) =>
            /\ startPhases' = phases
            /\ rowOrder' = [i \in 1..call'.imgHeight |-> i - 1]
            /\ \A y \in 0..(call'.imgHeight - 1) :
                  (phases'[y + 1] - phases[y + 1] - BufferAdvance(call', y)) % TwoPi = 0
      ]_vars

\* C8, amended: on a map whose row count equals that of the previous call,
\* a render starts from the phases the previous call ended with, advances
\* the rows brighter than the threshold once each, in increasing row order,
\* by bufferSize phase increments modulo 2*pi, and leaves the phase of every
\* other row as it was; nothing but a render changes a phase.
C8_ActiveRowsAdvance ==
    [][ /\ (op' = "render" /\ ~InvalidCall(call') /\ Len(phases) = call'.imgHeight) =>
            /\ startPhases' = phases
            /\ rowOrder' = ActiveRows(call')
            /\ \A y \in 0..(call'.imgHeight - 1) :
                  IF IsActive(GetPixelBrightness(call'.pix, call'.imgWidth,
                         Clamp(call'.columnX, 0, call'.imgWidth - 1), y))
                  THEN (phases'[y + 1] - phases[y + 1] - BufferAdvance(call', y))
                           % TwoPi = 0
                  ELSE phases'[y + 1] = phases[y + 1]
        /\ op' # "render" => phases' = phases
      ]_vars

\* a second render on a two-row map whose rows are both active and both
\* carry a non-zero phase over from the previous call
C8_Witness ==
    /\ op = "render" /\ ~InvalidCall(call) /\ renders >= 2
    /\ call.imgHeight = 2 /\ rowOrder = <<0, 1>>
    /\ startPhases[1] # 0 /\ startPhases[2] # 0
    /\ phases[1] # startPhases[1]


\* the oscillator term of row y in sample i (0-based) of the last render:
\* sin(phase at the start + i phase increments) * brightness * volume
OscTerm(c, y, i) ==
    Sin100(startPhases[y + 1] + i * PhaseInc(CalculateFrequencyFromY(y, c.imgHeight)))
        * GetPixelBrightness(c.pix, c.imgWidth,
                             Clamp(c.columnX, 0, c.imgWidth - 1), y)
        * volume

\* the sum of the terms of the first n rows of rows
RECURSIVE OscSum(_, _, _, _)
OscSum(c, rows, n, i) ==
    IF n = 0 THEN 0 ELSE OscSum(c, rows, n - 1, i) + OscTerm(c, rows[n], i)

\* the mono sample i of the last render as the claim describes it
NormalizedSum(c, i) ==
    LET rows == ActiveRows(c)
        k == Len(rows)
    IN  IF k = 0 THEN 0
        ELSE (OscSum(c, rows, k, i) * 1000) \div Sqrt1000[k]

\* the active rows of the column all have the brightness byte b
SameBrightness(c, b) ==
    \A n \in 1..Len(ActiveRows(c)) :
        GetPixelBrightness(c.pix, c.imgWidth, Clamp(c.columnX, 0, c.imgWidth - 1),
                           ActiveRows(c)[n]) = b

\* the amplitude b * volume of one oscillator of brightness byte b
UnitPeak(b) == 100 * b * volume

\* C16 as stated: every mono sample is the sum of the k oscillator terms
\* scaled by 1/sqrt(k), unscaled when k = 0, and with k active rows of one
\* brightness b no sample exceeds b * volume in magnitude.
C16_Original ==
    (op = "render" /\ ~InvalidCall(call)) =>
        \A i \in 1..bufferSize :
            /\ audioBuffer[i] = NormalizedSum(call, i - 1)
            /\ \A b \in 0..255 :
                  (ActiveRows(call) # <<>> /\ SameBrightness(call, b)) =>
                      Abs(audioBuffer[i]) <= UnitPeak(b) + 1

\* C16, amended: every mono sample is the sum of the k oscillator terms
\* scaled by 1/sqrt(k), unscaled when k = 0, and with k active rows of one
\* brightness b no sample exceeds k * b * volume / sqrt(k), that is
\* sqrt(k) * b * volume, in magnitude, which is less than twice the amplitude
\* of one row for the columns of up to three rows.
C16_SqrtBound ==
    (op = "render" /\ ~InvalidCall(call)) =>
        \A i \in 1..bufferSize :
            /\ audioBuffer[i] = NormalizedSum(call, i - 1)
            /\ \A b \in 0..255 :
                  (ActiveRows(call) # <<>> /\ SameBrightness(call, b)) =>
                      /\ Abs(audioBuffer[i]) <=
                            (Len(ActiveRows(call)) * UnitPeak(b) * 1000)
                                \div Sqrt1000[Len(ActiveRows(call))] + 1
                      /\ Abs(audioBuffer[i]) < 2 * UnitPeak(b)

\* two active rows of brightness 255 whose normalized sum exceeds the
\* amplitude of one row
C16_Witness ==
    /\ op = "render" /\ ~InvalidCall(call)
    /\ Len(ActiveRows(call)) = 2 /\ SameBrightness(call, 255)
    /\ \E i \in 1..bufferSize : Abs(audioBuffer[i]) > UnitPeak(255)


\* the last operation synthesized a column into the output buffer
Synthesized ==
    \/ op = "render" /\ ~InvalidCall(call)
    \/ op = "audioOut" /\ ~AppSilentCall(call)

ClaimedNote(y, h) ==
    LET n == IF h = 1 THEN 23 ELSE (23 * (h - 1 - y)) \div (h - 1)
    IN  48 + 12 * (n \div 6) + NoteScale[(n % 6) + 1]

\* C18: the frequency of row y of a map of height h is the clamped linear map
\* from [130.8128, 2093.0045] Hz onto [minFreq, maxFreq] of the frequency of
\* the MIDI note 48 + 12 * (n div 6) + scale[n mod 6], n = floor((1 -
\* y/(h-1)) * 23), n = 23 when h = 1; it lies between minFreq and maxFreq;
\* row 0 of a 24-row map is the note 96.
C18_FrequencyOfRow ==
    op = "frequency" =>
        /\ freqResult = OfMapClamped(BaseFreq[ClaimedNote(freqArgs.y, freqArgs.totalHeight)],
                                     13081, 209300, minFreq, maxFreq)
        /\ freqResult >= minFreq /\ freqResult <= maxFreq
        /\ (freqArgs.y = 0 /\ freqArgs.totalHeight = 24) =>
               ClaimedNote(freqArgs.y, freqArgs.totalHeight) = 96


\* C22: a synthesis starts from phases that are all zero when the row count
\* of the map differs from the number of phase accumulators, and from the
\* phases as they were when it is the same; this for the ColumnSonifier
\* and for ofApp.
C22_ResetOnRowCountChange ==
    [][ \/ op' = "render" /\ ~InvalidCall(call')
        \/ op' = "audioOut" /\ ~AppSilentCall(call')
        => startPhases' = IF Len(phases) # call'.imgHeight
                          THEN Zeros(call'.imgHeight)
                          ELSE phases ]_vars


\* the rows of the clamped column of call c whose pixel value is at least 26
RowsFrom26(c) ==
    SelectSeq([i \in 1..c.imgHeight |-> i - 1],
              LAMBDA y : c.pix[y * c.imgWidth
                               + Clamp(c.columnX, 0, c.imgWidth - 1) + 1] >= 26)

\* C23: in one synthesis the oscillators are exactly the rows whose pixel at
\* the clamped column is at least 26 (brightness above 0.1); the buffer is
\* the normalized sum of the terms of those rows alone, normalized by their
\* number, and every other row keeps its phase.
C23_ActiveIffAboveThreshold ==
    (op = "render" /\ ~InvalidCall(call)) =>
        LET rows == RowsFrom26(call)
            k == Len(rows)
        IN  /\ rowOrder = rows
            /\ \A i \in 1..bufferSize :
                  audioBuffer[i] = IF k = 0 THEN 0
                                   ELSE (OscSum(call, rows, k, i - 1) * 1000)
                                            \div Sqrt1000[k]
            /\ \A y \in 1..call.imgHeight :
                  (\A n \in 1..k : rows[n] # y - 1) => phases[y] = startPhases[y]

\* a render of the column with the pixels 0 and 25 after a render that left
\* a phase in row 1: no row is an oscillator, the buffer is silent and the
\* phases are as they were
C23_Witness ==
    /\ op = "render" /\ ~InvalidCall(call)
    /\ call.pix = <<255, 0, 26, 25>> /\ call.columnX = 2
    /\ rowOrder = <<>> /\ phases = startPhases
    /\ phases[2] # 0
    /\ \A i \in 1..bufferSize : audioBuffer[i] = 0

(***************************************************************************)
(* Claims about the image processor                                        *)
(***************************************************************************)

\* C6: once update() has run a pipeline pass, a further update() with no
\* source replaced and no contrast, exposure or sobelStrength changed since
\* the previous update() runs no pass and leaves the Sobel map identical;
\* and whatever was changed between two consecutive update() calls, the map
\* is recomputed at most once, by the second update().
C6_NoPassWhenUnchanged ==
    [][ /\ (op' = "update" /\ everPassed /\ ~srcChanged /\ ~parChanged) =>
              (~ranPass' /\ sobelImg' = sobelImg)
        /\ (op' # "update" /\ everPassed /\ sobelImg'.w = sobelImg.w
                /\ sobelImg'.h = sobelImg.h) => sobelImg' = sobelImg
      ]_vars

\* C11: after a pipeline pass every border pixel of the Sobel map (x in
\* {0, w-1} or y in {0, h-1}) is 0; a map narrower or shorter than 3 has
\* only border pixels, so it is 0 everywhere.
C11_BorderZero ==
    (op = "update" /\ ranPass) =>
        /\ Len(sobelImg.pix) = sobelImg.w * sobelImg.h
        /\ \A k \in 1..Len(sobelImg.pix) :
              LET x == (k - 1) % sobelImg.w
                  y == (k - 1) \div sobelImg.w
              IN  (x = 0 \/ x = sobelImg.w - 1 \/ y = 0 \/ y = sobelImg.h - 1)
                      => sobelImg.pix[k] = 0
        /\ (sobelImg.w < 3 \/ sobelImg.h < 3) =>
              \A k \in 1..Len(sobelImg.pix) : sobelImg.pix[k] = 0

\* a pass over a 4x4 map that leaves an edge inside the frame of zeros
C11_Witness ==
    /\ op = "update" /\ ranPass
    /\ sobelImg.w = 4 /\ sobelImg.h = 4
    /\ sobelImg.pix[6] > 0 /\ sobelImg.pix[11] > 0


\* C20: update() runs a pass only if setSourceRGB replaced the source or
\* setParams changed contrast, exposure or sobelStrength since the previous
\* pass; any other update() changes nothing of the processor.
C20_PassOnlyOnChange ==
    [][ op' = "update" =>
            /\ ranPass' => (srcChanged \/ parChanged)
            /\ ~(srcChanged \/ parChanged) => UNCHANGED imgVars ]_vars


\* the pixel of a map at column x, row y (0-based)
PixelAt(img, x, y) == img.pix[y * img.w + x + 1]

\* the horizontal and the vertical 3x3 Sobel sums of the map around (x, y)
SobelGx(img, x, y) ==
      (PixelAt(img, x + 1, y - 1) - PixelAt(img, x - 1, y - 1))
    + 2 * (PixelAt(img, x + 1, y) - PixelAt(img, x - 1, y))
    + (PixelAt(img, x + 1, y + 1) - PixelAt(img, x - 1, y + 1))

SobelGy(img, x, y) ==
      (PixelAt(img, x - 1, y + 1) - PixelAt(img, x - 1, y - 1))
    + 2 * (PixelAt(img, x, y + 1) - PixelAt(img, x, y - 1))
    + (PixelAt(img, x + 1, y + 1) - PixelAt(img, x + 1, y - 1))

\* C24: after a pass every interior pixel of the Sobel map is
\* (|gx| + |gy|) * sobelStrength, as a whole number, clamped to [0, 255], gx
\* and gy being the 3x3 Sobel sums of the adjusted grayscale map; on a
\* uniform grayscale map every interior pixel is 0.
C24_SobelMagnitude ==
    (op = "update" /\ ranPass) =>
        \A x \in 1..(sobelImg.w - 2), y \in 1..(sobelImg.h - 2) :
            /\ PixelAt(sobelImg, x, y) =
                   Clamp(((Abs(SobelGx(graySmall, x, y)) + Abs(SobelGy(graySmall, x, y)))
                             * lastSobelStrength) \div 10, 0, 255)
            /\ (\A k \in 1..Len(graySmall.pix) : graySmall.pix[k] = graySmall.pix[1])
                   => PixelAt(sobelImg, x, y) = 0

\* the pass over the 4x4 source of value 200 at full size with contrast 1,
\* exposure 0 and sobelStrength 1
C24_Witness ==
    /\ op = "update" /\ ranPass
    /\ graySmall.w = 4 /\ graySmall.h = 4
    /\ \A k \in 1..16 : graySmall.pix[k] = 200 /\ sobelImg.pix[k] = 0
    /\ lastContrast = 10 /\ lastExposure = 0 /\ lastSobelStrength = 10


\* n x scaleFactor rounded to the nearest whole number, at least 1
RoundScaled(n) == Max(1, (2 * n * scaleFactor + 4) \div 8)

\* d is n x scaleFactor rounded down, or 1 where that is 0
IsFloorScaled(d, n) ==
    \/ d >= 1 /\ 4 * d <= n * scaleFactor /\ n * scaleFactor < 4 * (d + 1)
    \/ d = 1 /\ n * scaleFactor < 4

\* C25 as stated: after setSourceRGB the processed map is
\* round(sourceW x scaleFactor) wide and round(sourceH x scaleFactor) high,
\* each at least 1.
C25_Original ==
    op = "setSource" =>
        /\ sobelImg.w = RoundScaled(original.w)
        /\ sobelImg.h = RoundScaled(original.h)

\* C25 amended: after setSourceRGB the grayscale map and the Sobel map are
\* floor(sourceW x scaleFactor) wide and floor(sourceH x scaleFactor) high,
\* each at least 1.
C25_FloorSize ==
    op = "setSource" =>
        /\ IsFloorScaled(sobelImg.w, original.w)
        /\ IsFloorScaled(sobelImg.h, original.h)
        /\ graySmall.w = sobelImg.w /\ graySmall.h = sobelImg.h
        /\ Len(sobelImg.pix) = sobelImg.w * sobelImg.h

\* a 3x3 source at scale factor 0.5: 1.5 is cut to 1
C25_Witness ==
    /\ op = "setSource" /\ original.w = 3 /\ original.h = 3 /\ scaleFactor = 2
    /\ sobelImg.w = 1 /\ sobelImg.h = 1


\* the Sobel map a completed pass over the current source leaves in a map of
\* the size of sobelImg, under contrast p[1], exposure p[2], sobelStrength p[3]
PassOverSource(p) ==
    ApplySobel(ApplyImageAdjustments(
                   ResizeToGrayscale(original, sobelImg.w, sobelImg.h), p[1], p[2]),
               sobelImg.w, sobelImg.h, p[3])

\* C29: whenever hasProcessed() is true (sobelImg is allocated) the Sobel
\* map is the result of a completed pass over the current source, under
\* some setting of the parameters; in particular between setSourceRGB() and
\* the next update().
C29_ProcessedIsComputed ==
    sobelImg.allocated =>
        \E p \in ImgParams : sobelImg.pix = PassOverSource(p)

(***************************************************************************)
(* Claims about the frame loop and the audio callback                      *)
(***************************************************************************)

\* C5: the audio callback never reads a map that is only partly written
\* (no callback is reading while applySobel is between its clear and its
\* last write), and no step mutates or reallocates the map while a callback
\* is reading it.
C5_NoInPlaceMutation ==
    [][ /\ audioPc' = "read" => framePc' # "sobelWrite"
        /\ audioPc = "read" => appSobelImg' = appSobelImg ]_vars


\* C19: after every frame update that moves the playhead, the playhead
\* position is at least 0 and less than the canvas width, whatever the sign of
\* the speed.
C19_PlayheadInRange ==
    op = "frame" => (playheadX >= 0 /\ playheadX < canvasWidth)


\* C30: every callback leaves numFrames x numChannels samples in the output
\* buffer.  ofApp::audioOut, called while isCapturing is true or while no
\* Sobel image is allocated, leaves zeros only and changes no phase;
\* AudioEngine::audioOut leaves zeros only and calls nothing when no render
\* function is set, and calls the render function once otherwise.
C30_SilentWhenNothingToSonify ==
    [][ /\ (op' \in {"audioOut", "engineAudioOut"}) =>
               Len(outBuf') = call'.frames * call'.channels
        /\ (op' = "audioOut" /\ (call'.capturing \/ ~call'.allocated)) =>
               /\ \A i \in 1..Len(outBuf') : outBuf'[i] = 0
               /\ phases' = phases
        /\ (op' = "engineAudioOut" /\ ~render) =>
               /\ \A i \in 1..Len(outBuf') : outBuf'[i] = 0
               /\ renderCalls' = 0
        /\ (op' = "engineAudioOut" /\ render) => renderCalls' = 1 ]_vars

\* a callback during video capture on an allocated map whose rows have
\* phases from earlier callbacks, after a callback of the AudioEngine that
\* called its render function
C30_Witness ==
    /\ op = "audioOut" /\ call.capturing /\ call.allocated
    /\ Len(phases) > 0 /\ phases[1] # 0
    /\ Len(outBuf) = 4 /\ \A i \in 1..4 : outBuf[i] = 0
    /\ renderCalls = 1

====
